---- MODULE Spec2Model ----
(***************************************************************************)
(* Spatial table reconstruction (src/src/image_processor.py), the          *)
(* statistics stage (src/src/data_analyzer.py) and the photo handler       *)
(* (src/src/telegram_bot.py) of the data-analyst bot.                      *)
(*                                                                         *)
(* Conventions.                                                            *)
(*  - A text is a sequence of one-character strings, so that strip, the    *)
(*    joining of texts with a space and numeric parsing are computed.      *)
(*  - Python lists are sequences; a Python index i is i + 1 here.          *)
(*  - All bounding boxes drawn as input are symmetric about an integer     *)
(*    centre, so (min + max) / 2 is exact and \div 2 computes it.          *)
(***************************************************************************)
EXTENDS Integers, Sequences, FiniteSets, TLC

VARIABLES
    pc,                \* position of the request being served
    ocr_results,       \* what reader.readtext returned: (bbox, text, conf) triples
    text_boxes,        \* _parse_spatial_table: the local text_boxes, after the sort
    rows,              \* _parse_spatial_table: the local rows
    header_row_idx,    \* _parse_spatial_table: the local header_row_idx (1-based, 0 = unset)
    column_positions,  \* _parse_spatial_table: the local column_positions
    df,                \* the DataFrame returned (NoneValue when None is returned)
    raises,            \* environment: the statistics sections whose computation raises on df
    analysis_results,  \* DataAnalyzer.analysis_results, the attribute of the shared analyzer
    result,            \* what analyze_data returned (NoneValue before it ran)
    TELEGRAM_USER_ID,  \* config.TELEGRAM_USER_ID, read from the environment at import
    update,            \* the photo update handled last and the environment's answers to it
    sent,              \* what the chat shows of the update handled last
    calls              \* the calls made into the collaborators for that update

tableVars == <<ocr_results, text_boxes, rows, header_row_idx, column_positions>>
analyzerVars == <<raises, analysis_results, result>>
botVars == <<TELEGRAM_USER_ID, update, sent, calls>>
vars == <<pc, ocr_results, text_boxes, rows, header_row_idx, column_positions, df,
          raises, analysis_results, result, TELEGRAM_USER_ID, update, sent, calls>>

-----------------------------------------------------------------------------
(* Bounds of the model *)

MaxDet == 4

MaxCols == 2

MaxRows == 2

MaxFailing == 2

MaxRoles == 2

-----------------------------------------------------------------------------
(* Generic helpers standing for Python built-ins *)

NoneValue == [none |-> TRUE]

\* os.getenv: None when the variable is not set, its text otherwise.
Unset == [none |-> TRUE, text |-> <<>>]

EnvText(t) == [none |-> FALSE, text |-> t]

\* The truth value of an Optional[str]: None and '' are false.
Truthy(v) == ~v.none /\ v.text # <<>>

abs(n) == IF n < 0 THEN -n ELSE n

min(S) == CHOOSE m \in S : \A n \in S : m <= n

max(S) == CHOOSE m \in S : \A n \in S : n <= m

Range(s) == {s[i] : i \in 1..Len(s)}

Front(s) == SubSeq(s, 1, Len(s) - 1)

Last(s) == s[Len(s)]

\* list.sort(key=lambda x: x[k]): a stable sort, ascending in field k.
RECURSIVE InsertByKey(_, _, _)
InsertByKey(s, e, k) ==
    IF s = <<>> THEN <<e>>
    ELSE IF Last(s)[k] <= e[k] THEN Append(s, e)
    ELSE Append(InsertByKey(Front(s), e, k), Last(s))

RECURSIVE sort_by_key(_, _)
sort_by_key(s, k) ==
    IF s = <<>> THEN <<>>
    ELSE InsertByKey(sort_by_key(Front(s), k), Last(s), k)

\* list.sort() of a list of numbers.
RECURSIVE InsertNum(_, _)
InsertNum(s, e) ==
    IF s = <<>> THEN <<e>>
    ELSE IF Last(s) <= e THEN Append(s, e)
    ELSE Append(InsertNum(Front(s), e), Last(s))

RECURSIVE sort_nums(_)
sort_nums(s) ==
    IF s = <<>> THEN <<>> ELSE InsertNum(sort_nums(Front(s)), Last(s))

\* str.strip(): leading and trailing whitespace removed.
RECURSIVE lstrip(_)
lstrip(s) == IF s # <<>> /\ Head(s) = " " THEN lstrip(Tail(s)) ELSE s

RECURSIVE rstrip(_)
rstrip(s) == IF s # <<>> /\ Last(s) = " " THEN rstrip(Front(s)) ELSE s

strip(s) == lstrip(rstrip(s))

-----------------------------------------------------------------------------
(* Inputs: what the text-detection engine may return *)

\* A bounding box of four corner points around the centre (cx, cy).
BBox(cx, cy) ==
    << <<cx - 4, cy - 2>>, <<cx + 4, cy - 2>>, <<cx + 4, cy + 2>>, <<cx - 4, cy + 2>> >>

Detection(t, cx, cy) == [bbox |-> BBox(cx, cy), text |-> t, conf |-> 1]

\* Table-shaped pages: three well separated lines, two column positions,
\* a word and a number (the number arrives with trailing whitespace).
TableDetections ==
    {Detection(t, cx, cy) : t \in {<<"a">>, <<"7", " ">>}, cx \in {0, 1}, cy \in {0, 20, 40}}

\* Skewed lines: vertical distances below, at and above the row threshold.
SkewDetections ==
    {Detection(<<"a">>, cx, cy) : cx \in {0, 1}, cy \in {0, 15, 20, 40}}

\* Pages where the engine returned blank text for some boxes.
BlankDetections ==
    {Detection(t, cx, cy) : t \in {<<" ">>, <<"a">>}, cx \in {0, 1}, cy \in {0, 20}}

\* Pages with a box midway between two column positions.
WideDetections ==
    {Detection(<<"a">>, cx, cy) : cx \in {0, 1, 2}, cy \in {0, 20}}

SeqsUpTo(S, n) == UNION {[1..k -> S] : k \in 0..n}

\* Detections whose geometry is malformed: a box without corner points, and
\* a box whose corner points carry a single coordinate.
NoPoints(t) == [bbox |-> <<>>, text |-> t, conf |-> 1]

ShortPoints(t) == [bbox |-> << <<0>>, <<8>>, <<8>>, <<0>> >>, text |-> t, conf |-> 1]

\* Pages where some boxes are malformed, among well-formed ones on two lines.
MalformedDetections ==
    {NoPoints(<<"c">>), ShortPoints(<<"d">>)}
        \cup {Detection(t, 0, cy) : t \in {<<"a">>, <<" ", "b">>}, cy \in {0, 20}}

MalformedInputs == SeqsUpTo(MalformedDetections, MaxDet)

OcrInputs ==
    SeqsUpTo(TableDetections, MaxDet) \cup SeqsUpTo(SkewDetections, MaxDet)
        \cup SeqsUpTo(BlankDetections, MaxDet) \cup SeqsUpTo(WideDetections, MaxDet)

-----------------------------------------------------------------------------
(* ImageProcessor._parse_spatial_table and its helpers *)

y_threshold == 20

\* Lines 74-93: one text box per OCR result.
TextBox(r) ==
    LET x_coords == {r.bbox[p][1] : p \in 1..Len(r.bbox)}
        y_coords == {r.bbox[p][2] : p \in 1..Len(r.bbox)}
        x_min == min(x_coords)
        x_max == max(x_coords)
        y_min == min(y_coords)
        y_max == max(y_coords)
    IN  [text |-> strip(r.text),
         x_min |-> x_min, x_max |-> x_max, y_min |-> y_min, y_max |-> y_max,
         x_center |-> (x_min + x_max) \div 2,
         y_center |-> (y_min + y_max) \div 2,
         confidence |-> r.conf]

ExtractTextBoxes(results) == [i \in 1..Len(results) |-> TextBox(results[i])]

\* Lines 76-80: min() of an empty list raises ValueError, point[1] of a
\* point with one coordinate raises IndexError.
TextBoxRaises(r) ==
    r.bbox = <<>> \/ \E p \in 1..Len(r.bbox) : Len(r.bbox[p]) < 2

\* Lines 73-93: the boxes appended to text_boxes when the loop is left by
\* the exception that the first malformed detection raises.
ExtractedBefore(results) ==
    LET first == min({i \in 1..Len(results) : TextBoxRaises(results[i])})
    IN  [i \in 1..(first - 1) |-> TextBox(results[i])]

\* Mutant: the sort by vertical position is left out.
SortedTextBoxes_unsorted(results) == ExtractTextBoxes(results)

\* Lines 72-96: the text boxes, sorted top to bottom.
SortedTextBoxes(results) == sort_by_key(ExtractTextBoxes(results), "y_center")

\* Mutant: the row is compared with its last member instead of its first.
RECURSIVE GroupLoop_last_member(_, _, _, _, _)
GroupLoop_last_member(boxes, i, done, current_row, current_y) ==
    IF i > Len(boxes)
    THEN Append(done, sort_by_key(current_row, "x_center"))
    ELSE IF abs(boxes[i].y_center - current_y) < y_threshold
         THEN GroupLoop_last_member(boxes, i + 1, done, Append(current_row, boxes[i]),
                                    boxes[i].y_center)
         ELSE GroupLoop_last_member(boxes, i + 1,
                                    Append(done, sort_by_key(current_row, "x_center")),
                                    <<boxes[i]>>, boxes[i].y_center)

\* Mutant: a box exactly y_threshold below the anchor still joins the row.
RECURSIVE GroupLoop_inclusive(_, _, _, _, _)
GroupLoop_inclusive(boxes, i, done, current_row, current_y) ==
    IF i > Len(boxes)
    THEN Append(done, sort_by_key(current_row, "x_center"))
    ELSE IF abs(boxes[i].y_center - current_y) <= y_threshold
         THEN GroupLoop_inclusive(boxes, i + 1, done, Append(current_row, boxes[i]),
                                  current_y)
         ELSE GroupLoop_inclusive(boxes, i + 1,
                                  Append(done, sort_by_key(current_row, "x_center")),
                                  <<boxes[i]>>, boxes[i].y_center)

\* Lines 174-189: the loop of _group_into_rows from position i on.
RECURSIVE GroupLoop(_, _, _, _, _)
GroupLoop(boxes, i, done, current_row, current_y) ==
    IF i > Len(boxes)
    THEN Append(done, sort_by_key(current_row, "x_center"))
    ELSE IF abs(boxes[i].y_center - current_y) < y_threshold
         THEN GroupLoop(boxes, i + 1, done, Append(current_row, boxes[i]), current_y)
         ELSE GroupLoop(boxes, i + 1,
                        Append(done, sort_by_key(current_row, "x_center")),
                        <<boxes[i]>>, boxes[i].y_center)

group_into_rows(boxes) ==
    IF boxes = <<>> THEN <<>>
    ELSE GroupLoop(boxes, 2, <<>>, <<boxes[1]>>, boxes[1].y_center)

\* Line 112: max(range(len(rows)), key=len): the first index of maximal length.
RECURSIVE ArgMaxLen(_, _, _)
ArgMaxLen(rs, i, best) ==
    IF i > Len(rs) THEN best
    ELSE IF Len(rs[i]) > Len(rs[best]) THEN ArgMaxLen(rs, i + 1, i)
    ELSE ArgMaxLen(rs, i + 1, best)

\* Mutant: among the rows of maximal length the last one is taken.
HeaderRowIdx_last_tie(rs) ==
    max({i \in 1..Len(rs) : \A j \in 1..Len(rs) : Len(rs[j]) <= Len(rs[i])})

HeaderRowIdx(rs) == ArgMaxLen(rs, 2, 1)

\* Lines 96-99: the rows clustered from the OCR results.
Cluster(results) == group_into_rows(SortedTextBoxes(results))

detect_columns(first_row) ==
    IF first_row = <<>> THEN <<>>
    ELSE sort_nums([i \in 1..Len(first_row) |-> first_row[i].x_center])

\* Mutant: the last position holding the minimum.
IndexOfMin_last(distances) ==
    max({i \in 1..Len(distances) : distances[i] = min(Range(distances))})

\* list.index(min(list)): the first position holding the minimum.
IndexOfMin(distances) ==
    CHOOSE i \in 1..Len(distances) :
        /\ distances[i] = min(Range(distances))
        /\ \A j \in 1..(i - 1) : distances[j] # distances[i]

\* Returns a 1-based column index (Python's 0 is 1 here).
assign_to_column(box, positions) ==
    IF positions = <<>> THEN 1
    ELSE IndexOfMin([c \in 1..Len(positions) |-> abs(box.x_center - positions[c])])

\* Mutant: a second box of a cell replaces the text instead of extending it.
RECURSIVE FillRow_overwrite(_, _, _, _)
FillRow_overwrite(row_boxes, i, positions, row_data) ==
    IF i > Len(row_boxes) THEN row_data
    ELSE LET box == row_boxes[i]
             col_idx == assign_to_column(box, positions)
         IN  IF col_idx <= Len(row_data)
             THEN FillRow_overwrite(row_boxes, i + 1, positions,
                                    [row_data EXCEPT ![col_idx] = box.text])
             ELSE FillRow_overwrite(row_boxes, i + 1, positions, row_data)

\* Lines 129-138: the boxes of one row, from position i on, put into row_data.
RECURSIVE FillRow(_, _, _, _)
FillRow(row_boxes, i, positions, row_data) ==
    IF i > Len(row_boxes) THEN row_data
    ELSE LET box == row_boxes[i]
             col_idx == assign_to_column(box, positions)
         IN  IF col_idx <= Len(row_data)
             THEN FillRow(row_boxes, i + 1, positions,
                          [row_data EXCEPT ![col_idx] =
                              IF @ # <<>> THEN @ \o <<" ">> \o box.text ELSE box.text])
             ELSE FillRow(row_boxes, i + 1, positions, row_data)

\* Mutant: the header row is not skipped (row_idx < header_row_idx).
TableData_from_header(rs, h, positions) ==
    [r \in 1..(Len(rs) - h + 1) |->
        FillRow(rs[h + r - 1], 1, positions, [c \in 1..Len(positions) |-> <<>>])]

\* Lines 123-139: one row_data per row after the header row.
TableData(rs, h, positions) ==
    [r \in 1..(Len(rs) - h) |->
        FillRow(rs[h + r], 1, positions, [c \in 1..Len(positions) |-> <<>>])]

DigitChars == <<"0", "1", "2", "3", "4", "5", "6", "7", "8", "9">>

DigitValue(ch) == (CHOOSE d \in 1..Len(DigitChars) : DigitChars[d] = ch) - 1

\* Line 146: f'Column_{i}' for the Python index i.
ColumnPlaceholder(i) == <<"Column_", DigitChars[i + 1]>>

\* Lines 120 and 146: the header texts, empty ones replaced by a placeholder.
CleanHeaders(header_row) ==
    [i \in 1..Len(header_row) |->
        LET h == strip(header_row[i].text)
        IN  IF h # <<>> THEN strip(h) ELSE ColumnPlaceholder(i - 1)]

(* pandas: a DataFrame is its column labels, one dtype per column and its
   records; a cell is a string, a number or NaN. *)
StrCell(s) == [kind |-> "str", text |-> s, num |-> 0]

NumCell(n) == [kind |-> "num", text |-> <<>>, num |-> n]

NaNCell == [kind |-> "nan", text |-> <<>>, num |-> 0]

\* pd.DataFrame(data, columns=...) of lists of strings: every column is object.
DataFrame(data, columns) ==
    [columns |-> columns,
     dtypes  |-> [c \in 1..Len(columns) |-> "object"],
     data    |-> [r \in 1..Len(data) |-> [c \in 1..Len(data[r]) |-> StrCell(data[r][c])]]]

\* What pd.to_numeric parses among the texts of the model: a run of digits.
ParsesAsNumber(s) == s # <<>> /\ \A i \in 1..Len(s) : s[i] \in Range(DigitChars)

RECURSIVE NumberOf(_)
NumberOf(s) == IF s = <<>> THEN 0 ELSE 10 * NumberOf(Front(s)) + DigitValue(Last(s))

\* pd.to_numeric(series) raises ValueError on a string that is no number;
\* an empty string becomes NaN.
ToNumericRaises(cells) ==
    \E r \in 1..Len(cells) :
        cells[r].kind = "str" /\ cells[r].text # <<>> /\ ~ParsesAsNumber(cells[r].text)

\* Mutant: an empty string is read as the number 0 instead of NaN.
ToNumericCell_blank_as_zero(cell) ==
    IF cell.kind # "str" THEN cell
    ELSE IF cell.text = <<>> THEN NumCell(0)
    ELSE NumCell(NumberOf(cell.text))

ToNumericCell(cell) ==
    IF cell.kind # "str" THEN cell
    ELSE IF cell.text = <<>> THEN NaNCell
    ELSE NumCell(NumberOf(cell.text))

\* df[col] is a Series only when the label col is unique; for a repeated
\* label it is a DataFrame and pd.to_numeric raises TypeError.
LabelIsUnique(frame, c) ==
    \A d \in 1..Len(frame.columns) : frame.columns[d] = frame.columns[c] => d = c

Column(frame, c) == [r \in 1..Len(frame.data) |-> frame.data[r][c]]

\* Lines 151-155, for the column at position c: TRUE when the assignment
\* df[col] = pd.to_numeric(df[col]) is carried out.
IsConverted(frame, c) ==
    LabelIsUnique(frame, c) /\ ~ToNumericRaises(Column(frame, c))

ConvertNumericColumns(frame) ==
    [columns |-> frame.columns,
     dtypes  |-> [c \in 1..Len(frame.columns) |->
                    IF ~IsConverted(frame, c) THEN frame.dtypes[c]
                    ELSE IF \E r \in 1..Len(frame.data) : frame.data[r][c].text = <<>>
                         THEN "float64" ELSE "int64"],
     data    |-> [r \in 1..Len(frame.data) |->
                    [c \in 1..Len(frame.columns) |->
                        IF IsConverted(frame, c) THEN ToNumericCell(frame.data[r][c])
                        ELSE frame.data[r][c]]]]

\* Mutant: boxes whose text is blank are left out of the fallback.
FallbackFrame_skip_blank(boxes) ==
    LET kept == SelectSeq(boxes, LAMBDA b : b.text # <<>>)
    IN  [columns |-> << <<"Data">> >>,
         dtypes  |-> <<"object">>,
         data    |-> [i \in 1..Len(kept) |-> <<StrCell(kept[i].text)>>]]

\* Lines 108 and 143: the single-column fallback.
FallbackFrame(boxes) ==
    DataFrame([i \in 1..Len(boxes) |-> <<boxes[i].text>>], << <<"Data">> >>)

\* Lines 159-163: the handler of an exception raised inside the try.
ExceptFallback(boxes) ==
    IF boxes = <<>> THEN NoneValue ELSE FallbackFrame(boxes)

\* Lines 105-157: the value returned, from the locals computed before.
BuildFrame(boxes, rs, h, positions) ==
    IF rs = <<>> \/ Len(rs) < 2 THEN FallbackFrame(boxes)
    ELSE LET table_data == TableData(rs, h, positions)
         IN  IF table_data = <<>> THEN FallbackFrame(boxes)
             ELSE ConvertNumericColumns(DataFrame(table_data, CleanHeaders(rs[h])))

-----------------------------------------------------------------------------
(* DataAnalyzer.analyze_data *)

\* {}: the dictionary without keys.
EmptyDict == [k \in {} |-> k]

SectionNames ==
    <<"overview", "descriptive_stats", "data_quality", "correlations",
      "outliers", "trends", "insights">>

\* str(e) of the exception raised while section s is computed.
ExceptionMessage(s) == <<"exception raised in", s>>

\* df.select_dtypes(include=[np.number]): the positions of the numeric columns.
NumericColumns(frame) ==
    {c \in 1..Len(frame.columns) : frame.dtypes[c] \in {"int64", "float64"}}

-----------------------------------------------------------------------------
(* Floating-point values: NaN, or an exact fraction num / den in lowest terms
   with den > 0. Rounding to binary64 is not modelled: the cells of the model
   hold small integers, for which every comparison of the code with a
   threshold or a bound gives the same answer on the exact value. *)

RECURSIVE gcd(_, _)
gcd(a, b) == IF b = 0 THEN a ELSE gcd(b, a % b)

NaN == [nan |-> TRUE, num |-> 0, den |-> 1]

\* n / d for d # 0.
Fraction(n, d) ==
    LET g == gcd(abs(n), abs(d))
    IN  [nan |-> FALSE,
         num |-> IF d < 0 THEN -(n \div g) ELSE n \div g,
         den |-> abs(d) \div g]

Float(n) == Fraction(n, 1)

FAdd(a, b) ==
    IF a.nan \/ b.nan THEN NaN
    ELSE Fraction(a.num * b.den + b.num * a.den, a.den * b.den)

FSub(a, b) ==
    IF a.nan \/ b.nan THEN NaN
    ELSE Fraction(a.num * b.den - b.num * a.den, a.den * b.den)

FMul(a, b) ==
    IF a.nan \/ b.nan THEN NaN ELSE Fraction(a.num * b.num, a.den * b.den)

\* a / b for b # 0: every division of the code is guarded or has a positive divisor.
FDiv(a, b) ==
    IF a.nan \/ b.nan THEN NaN ELSE Fraction(a.num * b.den, a.den * b.num)

FAbs(a) == IF a.nan THEN NaN ELSE Fraction(abs(a.num), a.den)

\* a < b and a > b: False as soon as one side is NaN.
FLess(a, b) == ~a.nan /\ ~b.nan /\ a.num * b.den < b.num * a.den

FGreater(a, b) == FLess(b, a)

\* a != b: True as soon as one side is NaN.
FNotEqual(a, b) == a.nan \/ b.nan \/ a # b

\* Series.sum() of the values that are present.
RECURSIVE SumOf(_)
SumOf(cells) == IF cells = <<>> THEN 0 ELSE cells[1].num + SumOf(Tail(cells))

\* Series.dropna(): the cells of a numeric column that hold a number.
dropna(cells) == SelectSeq(cells, LAMBDA x : x.kind = "num")

\* Series.mean(): missing values are skipped, and the mean of nothing is NaN.
mean(cells) ==
    IF dropna(cells) = <<>> THEN NaN
    ELSE Fraction(SumOf(dropna(cells)), Len(dropna(cells)))

-----------------------------------------------------------------------------
(* DataAnalyzer._detect_trends *)

\* The key 'note' of a section that has nothing to report.
note == <<"n", "o", "t", "e">>

\* The position of the column labelled k; the numeric labels of a table are
\* distinct (a repeated label is never converted by the reconstruction).
ColumnOf(frame, k) == CHOOSE c \in 1..Len(frame.columns) : frame.columns[c] = k

NumericLabels(frame) == {frame.columns[c] : c \in NumericColumns(frame)}

\* Mutant: the percentage is taken relative to the second-half mean.
TrendEntry_relative_to_second(cells) ==
    LET mid == Len(cells) \div 2
        first_half_mean == mean(SubSeq(cells, 1, mid))
        second_half_mean == mean(SubSeq(cells, mid + 1, Len(cells)))
        change == FSub(second_half_mean, first_half_mean)
    IN  [trend             |-> IF FGreater(change, Float(0)) THEN "increasing"
                               ELSE "decreasing",
         change_percentage |-> IF FNotEqual(second_half_mean, Float(0))
                               THEN FMul(FDiv(change, second_half_mean), Float(100))
                               ELSE Float(0),
         first_half_avg    |-> first_half_mean,
         second_half_avg   |-> second_half_mean]

\* Mutant: a change of zero counts as increasing.
TrendEntry_zero_increasing(cells) ==
    LET mid == Len(cells) \div 2
        first_half_mean == mean(SubSeq(cells, 1, mid))
        second_half_mean == mean(SubSeq(cells, mid + 1, Len(cells)))
        change == FSub(second_half_mean, first_half_mean)
    IN  [trend             |-> IF ~FLess(change, Float(0)) THEN "increasing"
                               ELSE "decreasing",
         change_percentage |-> IF FNotEqual(first_half_mean, Float(0))
                               THEN FMul(FDiv(change, first_half_mean), Float(100))
                               ELSE Float(0),
         first_half_avg    |-> first_half_mean,
         second_half_avg   |-> second_half_mean]

\* Mutant: the percentage is taken from the magnitude of the change.
TrendEntry_unsigned_percentage(cells) ==
    LET mid == Len(cells) \div 2
        first_half_mean == mean(SubSeq(cells, 1, mid))
        second_half_mean == mean(SubSeq(cells, mid + 1, Len(cells)))
        change == FSub(second_half_mean, first_half_mean)
    IN  [trend             |-> IF FGreater(change, Float(0)) THEN "increasing"
                               ELSE "decreasing",
         change_percentage |-> IF FNotEqual(first_half_mean, Float(0))
                               THEN FMul(FDiv(FAbs(change), first_half_mean), Float(100))
                               ELSE Float(0),
         first_half_avg    |-> first_half_mean,
         second_half_avg   |-> second_half_mean]

\* Lines 158-172: the entry of one numeric column.
TrendEntry(cells) ==
    LET mid == Len(cells) \div 2
        first_half_mean == mean(SubSeq(cells, 1, mid))
        second_half_mean == mean(SubSeq(cells, mid + 1, Len(cells)))
        change == FSub(second_half_mean, first_half_mean)
    IN  [trend             |-> IF FGreater(change, Float(0)) THEN "increasing"
                               ELSE "decreasing",
         change_percentage |-> IF FNotEqual(first_half_mean, Float(0))
                               THEN FMul(FDiv(change, first_half_mean), Float(100))
                               ELSE Float(0),
         first_half_avg    |-> first_half_mean,
         second_half_avg   |-> second_half_mean]

\* Mutant: a table without numeric columns gets the empty dictionary.
detect_trends_no_note(frame) ==
    [k \in NumericLabels(frame) |-> TrendEntry(Column(frame, ColumnOf(frame, k)))]

\* Lines 151-174.
detect_trends(frame) ==
    IF NumericColumns(frame) = {}
    THEN [k \in {note} |-> <<"No trends detected">>]
    ELSE [k \in NumericLabels(frame) |->
              TrendEntry(Column(frame, ColumnOf(frame, k)))]

-----------------------------------------------------------------------------
(* DataAnalyzer._detect_outliers *)

\* The numbers held by the cells of a numeric column, in row order.
ValuesOf(cells) == [i \in 1..Len(dropna(cells)) |-> dropna(cells)[i].num]

\* Series.quantile(qn / 4): linear interpolation between the order statistics
\* around position (qn / 4) * (n - 1) of the n values present; NaN for none.
quantile(cells, qn) ==
    LET s   == sort_nums(ValuesOf(cells))
        lo  == (qn * (Len(s) - 1)) \div 4
        rem == (qn * (Len(s) - 1)) % 4
    IN  IF s = <<>> THEN NaN
        ELSE IF rem = 0 THEN Float(s[lo + 1])
        ELSE FAdd(Float(s[lo + 1]),
                  FMul(Fraction(rem, 4), Float(s[lo + 2] - s[lo + 1])))

\* Line 136.
lower_bound(cells) ==
    FSub(quantile(cells, 1),
         FMul(Fraction(3, 2), FSub(quantile(cells, 3), quantile(cells, 1))))

\* Line 137.
upper_bound(cells) ==
    FAdd(quantile(cells, 3),
         FMul(Fraction(3, 2), FSub(quantile(cells, 3), quantile(cells, 1))))

\* Mutant: a value on a bound counts as an outlier.
outlier_mask_inclusive(cells) ==
    LET lower == lower_bound(cells)
        upper == upper_bound(cells)
    IN  SelectSeq(cells, LAMBDA x :
            /\ x.kind = "num"
            /\ ~FGreater(Float(x.num), lower) \/ ~FLess(Float(x.num), upper))

\* Line 139: the cells selected by the mask, in row order.
outlier_mask(cells) ==
    LET lower == lower_bound(cells)
        upper == upper_bound(cells)
    IN  SelectSeq(cells, LAMBDA x :
            /\ x.kind = "num"
            /\ FLess(Float(x.num), lower) \/ FGreater(Float(x.num), upper))

\* Lines 143-147.
OutlierEntry(cells) ==
    [count      |-> Len(outlier_mask(cells)),
     percentage |-> FMul(Fraction(Len(outlier_mask(cells)), Len(cells)), Float(100)),
     values     |-> ValuesOf(outlier_mask(cells))]

\* The labels of the numeric columns that get an entry (line 142).
OutlierLabels(frame) ==
    {k \in NumericLabels(frame) :
        Len(outlier_mask(Column(frame, ColumnOf(frame, k)))) > 0}

\* Lines 127-149.
detect_outliers(frame) ==
    IF OutlierLabels(frame) = {}
    THEN [k \in {note} |-> <<"No outliers detected">>]
    ELSE [k \in OutlierLabels(frame) |->
              OutlierEntry(Column(frame, ColumnOf(frame, k)))]

-----------------------------------------------------------------------------
(* DataAnalyzer._generate_insights *)

UpperCase ==
    <<"A", "B", "C", "D", "E", "F", "G", "H", "I", "J", "K", "L", "M",
      "N", "O", "P", "Q", "R", "S", "T", "U", "V", "W", "X", "Y", "Z">>

LowerCase ==
    <<"a", "b", "c", "d", "e", "f", "g", "h", "i", "j", "k", "l", "m",
      "n", "o", "p", "q", "r", "s", "t", "u", "v", "w", "x", "y", "z">>

\* str.lower().
lower(text) ==
    [i \in 1..Len(text) |->
        IF \E j \in 1..Len(UpperCase) : UpperCase[j] = text[i]
        THEN LowerCase[CHOOSE j \in 1..Len(UpperCase) : UpperCase[j] = text[i]]
        ELSE text[i]]

\* x in c: x occurs in c as a substring.
Contains(text, x) ==
    \E i \in 1..(Len(text) - Len(x) + 1) : SubSeq(text, i, i + Len(x) - 1) = x

\* Lines 185-189: the naming patterns of the five business roles.
revenue_patterns ==
    {<<"r", "e", "v", "e", "n", "u", "e">>,
     <<"s", "a", "l", "e", "s">>,
     <<"i", "n", "c", "o", "m", "e">>}

cost_patterns ==
    {<<"c", "o", "s", "t">>,
     <<"e", "x", "p", "e", "n", "s", "e">>,
     <<"s", "p", "e", "n", "d">>}

customer_patterns ==
    {<<"c", "u", "s", "t", "o", "m", "e", "r">>,
     <<"u", "s", "e", "r">>,
     <<"c", "l", "i", "e", "n", "t">>}

order_patterns ==
    {<<"o", "r", "d", "e", "r">>,
     <<"t", "r", "a", "n", "s", "a", "c", "t", "i", "o", "n">>,
     <<"p", "u", "r", "c", "h", "a", "s", "e">>}

value_patterns ==
    {<<"v", "a", "l", "u", "e">>,
     <<"p", "r", "i", "c", "e">>,
     <<"a", "v", "g">>,
     <<"a", "v", "e", "r", "a", "g", "e">>}

\* Line 182: the labels of the numeric columns, in column order.
numeric_cols(frame) ==
    LET F[i \in 0..Len(frame.columns)] ==
            IF i = 0 THEN <<>>
            ELSE IF i \in NumericColumns(frame) THEN Append(F[i - 1], frame.columns[i])
            ELSE F[i - 1]
    IN  F[Len(frame.columns)]

\* Lines 185-189: [c for c in numeric_cols if any(x in c.lower() for x in patterns)].
role_cols(frame, patterns) ==
    SelectSeq(numeric_cols(frame),
              LAMBDA c : \E x \in patterns : Contains(lower(c), x))

\* isinstance(trends.get(k), dict): k has an entry, and trends is not the
\* note of a table without numeric columns.
HasTrendEntry(frame, trends, k) ==
    NumericColumns(frame) # {} /\ k \in DOMAIN trends

\* The pieces of a formatted message: literal text and formatted numbers.
Lit(s) == [kind |-> "lit", text |-> s, tenths |-> 0]

\* round(): to the nearest integer, a tie to the even one, for a value >= 0.
RoundHalfEven(a) ==
    LET q == a.num \div a.den
        r == a.num % a.den
    IN  IF 2 * r < a.den THEN q
        ELSE IF 2 * r > a.den THEN q + 1
        ELSE IF q % 2 = 0 THEN q ELSE q + 1

\* f"{x:.1f}": the sign and the number of tenths after rounding, 'nan' for NaN.
Format1f(a) ==
    IF a.nan THEN [kind |-> "fig", text |-> "nan", tenths |-> 0]
    ELSE [kind   |-> "fig",
          text   |-> IF a.num < 0 THEN "-" ELSE "",
          tenths |-> RoundHalfEven(FMul(FAbs(a), Float(10)))]

\* Mutant: the driver is named for a fall of the customer count as well.
driver_on_magnitude(frame, trends, customer_cols) ==
    IF /\ customer_cols # <<>>
       /\ HasTrendEntry(frame, trends, customer_cols[1])
       /\ FGreater(FAbs(trends[customer_cols[1]].change_percentage), Float(10))
    THEN <<Lit(" driven by "), Format1f(trends[customer_cols[1]].change_percentage),
           Lit("% customer growth")>>
    ELSE <<>>

\* Lines 199-203.
driver(frame, trends, customer_cols) ==
    IF /\ customer_cols # <<>>
       /\ HasTrendEntry(frame, trends, customer_cols[1])
       /\ FGreater(trends[customer_cols[1]].change_percentage, Float(10))
    THEN <<Lit(" driven by "), Format1f(trends[customer_cols[1]].change_percentage),
           Lit("% customer growth")>>
    ELSE <<>>

\* Mutant: the strong wording is chosen on the magnitude of the change.
revenue_advice_on_magnitude(change_pct) ==
    IF FGreater(FAbs(change_pct), Float(20))
    THEN "Strong performance - investigate what strategies are working to replicate success."
    ELSE "Monitor closely and identify growth drivers."

\* Line 207.
revenue_advice(change_pct) ==
    IF FGreater(change_pct, Float(20))
    THEN "Strong performance - investigate what strategies are working to replicate success."
    ELSE "Monitor closely and identify growth drivers."

\* Lines 192-208.
revenue_insight(frame, trends, revenue_cols, customer_cols) ==
    IF revenue_cols # <<>> /\ HasTrendEntry(frame, trends, revenue_cols[1])
    THEN LET rev_trend == trends[revenue_cols[1]]
             change_pct == rev_trend.change_percentage
         IN  IF FGreater(FAbs(change_pct), Float(10))
             THEN << <<Lit("Revenue "), Lit(rev_trend.trend), Lit(" "),
                       Format1f(FAbs(change_pct)), Lit("%")>>
                     \o driver(frame, trends, customer_cols)
                     \o <<Lit(". "), Lit(revenue_advice(change_pct))>> >>
             ELSE <<>>
    ELSE <<>>

\* Lines 211-227; the leading emoji of the messages are left out.
profitability_insight(frame, trends, revenue_cols, cost_cols) ==
    IF /\ revenue_cols # <<>> /\ cost_cols # <<>>
       /\ HasTrendEntry(frame, trends, revenue_cols[1])
       /\ HasTrendEntry(frame, trends, cost_cols[1])
    THEN LET rev_change == trends[revenue_cols[1]].change_percentage
             cost_change == trends[cost_cols[1]].change_percentage
         IN  IF FGreater(cost_change, rev_change) /\ FGreater(cost_change, Float(5))
             THEN << <<Lit("Profit margin pressure: Costs growing "),
                       Format1f(cost_change),
                       Lit("% while revenue grows "), Format1f(rev_change),
                       Lit("%. Recommend cost optimization review and pricing strategy assessment.")>> >>
             ELSE IF FGreater(rev_change, cost_change) /\ FGreater(rev_change, Float(10))
             THEN << <<Lit("Improving profitability: Revenue outpacing costs ("),
                       Format1f(rev_change), Lit("% vs "), Format1f(cost_change),
                       Lit("%). Good operational efficiency - maintain current cost controls.")>> >>
             ELSE <<>>
    ELSE <<>>

\* Lines 230-244.
customer_value_insight(frame, trends, value_cols, customer_cols) ==
    IF /\ value_cols # <<>> /\ customer_cols # <<>>
       /\ HasTrendEntry(frame, trends, value_cols[1])
    THEN LET val_change == trends[value_cols[1]].change_percentage
         IN  IF FLess(val_change, Float(-5))
             THEN << <<Lit("Declining customer value: Average value per customer down "),
                       Format1f(FAbs(val_change)),
                       Lit("%. Investigate product mix changes and consider upselling/cross-selling initiatives to recover value.")>> >>
             ELSE IF FGreater(val_change, Float(10))
             THEN << <<Lit("Increasing customer value: Up "), Format1f(val_change),
                       Lit("%. Current strategies are working - document and replicate successful tactics.")>> >>
             ELSE <<>>
    ELSE <<>>

\* Lines 247-256.
engagement_insight(frame, trends, order_cols, customer_cols) ==
    IF /\ order_cols # <<>> /\ customer_cols # <<>>
       /\ HasTrendEntry(frame, trends, order_cols[1])
       /\ HasTrendEntry(frame, trends, customer_cols[1])
    THEN LET order_change == trends[order_cols[1]].change_percentage
             cust_change == trends[customer_cols[1]].change_percentage
         IN  IF FGreater(order_change, FAdd(cust_change, Float(10)))
             THEN << <<Lit("Strong customer engagement: Orders growing faster than customer base ("),
                       Format1f(order_change), Lit("% vs "), Format1f(cust_change),
                       Lit("%). Existing customers are buying more - retention strategies are working.")>> >>
             ELSE <<>>
    ELSE <<>>

\* df.isnull().sum().sum(): the cells that hold NaN; an empty string is a value.
NullCount(frame) ==
    Cardinality({rc \in (1..Len(frame.data)) \X (1..Len(frame.columns)) :
                    frame.data[rc[1]][rc[2]].kind = "nan"})

\* Line 259.
missing_pct(frame) ==
    FMul(Fraction(NullCount(frame), Len(frame.data) * Len(frame.columns)), Float(100))

\* Lines 259-264.
completeness_insight(frame) ==
    LET pct == missing_pct(frame)
    IN  IF FGreater(pct, Float(10))
        THEN << <<Lit("Data completeness issue: "), Format1f(pct),
                  Lit("% missing values may affect analysis accuracy. Review data collection processes.")>> >>
        ELSE <<>>

\* Line 266: the message used when no rule appended anything.
default_insight ==
    <<Lit("Dataset is clean. No significant trends or anomalies detected.")>>

\* Mutant: the data completeness rule runs before the business rules.
rule_insights_completeness_first(frame) ==
    LET trends == detect_trends(frame)
        revenue_cols == role_cols(frame, revenue_patterns)
        customer_cols == role_cols(frame, customer_patterns)
    IN  completeness_insight(frame)
            \o revenue_insight(frame, trends, revenue_cols, customer_cols)
            \o profitability_insight(frame, trends, revenue_cols,
                                     role_cols(frame, cost_patterns))
            \o customer_value_insight(frame, trends, role_cols(frame, value_patterns),
                                      customer_cols)
            \o engagement_insight(frame, trends, role_cols(frame, order_patterns),
                                  customer_cols)

\* Lines 178-264: the list insights before line 266; the rules append in this order.
rule_insights(frame) ==
    LET trends == detect_trends(frame)
        revenue_cols == role_cols(frame, revenue_patterns)
        cost_cols == role_cols(frame, cost_patterns)
        customer_cols == role_cols(frame, customer_patterns)
        order_cols == role_cols(frame, order_patterns)
        value_cols == role_cols(frame, value_patterns)
    IN  revenue_insight(frame, trends, revenue_cols, customer_cols)
            \o profitability_insight(frame, trends, revenue_cols, cost_cols)
            \o customer_value_insight(frame, trends, value_cols, customer_cols)
            \o engagement_insight(frame, trends, order_cols, customer_cols)
            \o completeness_insight(frame)

\* Mutant: the default message is appended to whatever the rules produced.
generate_insights_always_default(frame) ==
    [insights |-> Append(rule_insights(frame), default_insight)]

\* Lines 176-266.
generate_insights(frame) ==
    LET insights == rule_insights(frame)
    IN  [insights |-> IF insights # <<>> THEN insights ELSE <<default_insight>>]

\* The value a section computes from the table when nothing raises.
SectionValue(s, frame) == [section |-> s, computed_from |-> frame]

\* Lines 100-125: only the part inside the try can fail without propagating.
analyze_correlations(frame, raising) ==
    IF Cardinality(NumericColumns(frame)) < 2
    THEN [note |-> <<"Not enough numeric columns for correlation">>]
    ELSE IF "correlations" \in raising
         THEN [error |-> ExceptionMessage("correlations")]
         ELSE SectionValue("correlations", frame)

\* The sections without a try of their own: an exception leaves the method.
Propagates(s, raising) == s # "correlations" /\ s \in raising

\* Lines 33-41: the dictionary display evaluates the sections in order.
ComputeSections(frame, raising) ==
    [s \in Range(SectionNames) |->
        IF s = "correlations" THEN analyze_correlations(frame, raising)
        ELSE IF s = "outliers" THEN detect_outliers(frame)
        ELSE IF s = "trends" THEN detect_trends(frame)
        ELSE IF s = "insights" THEN generate_insights(frame)
        ELSE SectionValue(s, frame)]

FirstPropagating(raising) ==
    SectionNames[min({i \in 1..Len(SectionNames) : Propagates(SectionNames[i], raising)})]

\* Lines 25-47: the value returned and the value of self.analysis_results after.
AnalyzeData(frame, raising, stored) ==
    IF frame = NoneValue \/ Len(frame.data) = 0
    THEN [returned |-> [error |-> <<"No data to analyze">>], stored |-> stored]
    ELSE IF \E i \in 1..Len(SectionNames) : Propagates(SectionNames[i], raising)
    THEN [returned |-> [error |-> ExceptionMessage(FirstPropagating(raising))],
          stored |-> stored]
    ELSE LET sections == ComputeSections(frame, raising)
         IN  [returned |-> sections, stored |-> sections]

-----------------------------------------------------------------------------
(* Inputs of the statistics stage: small tables of text and number columns *)

ColumnLabel(c) == <<"col", DigitChars[c + 1]>>

ColumnsOfHeight(nr) ==
    {[dtype |-> "object", cells |-> cs] : cs \in [1..nr -> {StrCell(<<"a">>)}]}
        \cup {[dtype |-> "int64", cells |-> cs] : cs \in [1..nr -> {NumCell(1), NumCell(2)}]}

FrameOfColumns(cols, nr) ==
    [columns |-> [c \in 1..Len(cols) |-> ColumnLabel(c)],
     dtypes  |-> [c \in 1..Len(cols) |-> cols[c].dtype],
     data    |-> [r \in 1..nr |-> [c \in 1..Len(cols) |-> cols[c].cells[r]]]]

AnalyzerInputs ==
    {NoneValue} \cup
    UNION {UNION {{FrameOfColumns(cols, nr) : cols \in [1..nc -> ColumnsOfHeight(nr)]}
                    : nc \in 1..MaxCols}
             : nr \in 0..MaxRows}

RaisingSets == {S \in SUBSET Range(SectionNames) : Cardinality(S) <= MaxFailing}

\* Column labels as the reconstruction produces them: header texts.
Sales == <<"S", "a", "l", "e", "s">>

Cost == <<"C", "o", "s", "t">>

Users == <<"U", "s", "e", "r", "s">>

Orders == <<"O", "r", "d", "e", "r", "s">>

Price == <<"P", "r", "i", "c", "e">>

Qty == <<"Q", "t", "y">>

Name == <<"N", "a", "m", "e">>

\* A frame from its labels and its columns of cells; a numeric column is
\* float64 when it holds a NaN and int64 otherwise, as pd.to_numeric leaves it.
LabelledFrame(labels, cols) ==
    [columns |-> labels,
     dtypes  |-> [c \in 1..Len(labels) |->
                    IF \E r \in 1..Len(cols[c]) : cols[c][r].kind = "str" THEN "object"
                    ELSE IF \E r \in 1..Len(cols[c]) : cols[c][r].kind = "nan"
                         THEN "float64" ELSE "int64"],
     data    |-> [r \in 1..Len(cols[1]) |-> [c \in 1..Len(labels) |-> cols[c][r]]]]

\* One numeric column without a business role: short columns with zeros and
\* missing values, for the split at the midpoint.
TrendFrames ==
    UNION {{LabelledFrame(<<Qty>>, <<cells>>)
                : cells \in [1..nr -> {NaNCell, NumCell(0), NumCell(1), NumCell(3)}]}
             : nr \in 1..(MaxRows + 1)}

\* One numeric column of four or five records with far and borderline values.
OutlierFrames ==
    {LabelledFrame(<<Qty>>, <<cells>>)
        : cells \in [1..5 -> {NumCell(1), NumCell(2), NumCell(3), NumCell(4),
                               NumCell(7), NumCell(100)}]}
    \cup {LabelledFrame(<<Qty>>, <<cells>>)
        : cells \in [1..4 -> {NaNCell, NumCell(1), NumCell(2), NumCell(7), NumCell(100)}]}
    \cup {LabelledFrame(<<Qty, Price>>, <<a, b>>)
        : a \in {<<NumCell(1), NumCell(2), NumCell(3), NumCell(4), NumCell(100)>>,
                 <<NumCell(1), NumCell(2), NumCell(3), NumCell(4), NumCell(7)>>},
          b \in {<<NumCell(100), NumCell(2), NumCell(2), NumCell(2), NumCell(1)>>,
                 <<NumCell(2), NumCell(2), NumCell(2), NumCell(2), NumCell(2)>>}}

\* Business tables of two records: every column starts at 20, so its trend
\* change is -25, -10, 0, 5, 10, 15, 20 or 25 percent.
BusinessLabels == <<Sales, Cost, Users, Orders, Price, Qty>>

SecondRecordValues == {15, 18, 20, 21, 22, 23, 24, 25}

\* The labels at the positions of S, in the order of BusinessLabels.
LabelsAt(S) ==
    LET F[i \in 0..Len(BusinessLabels)] ==
            IF i = 0 THEN <<>>
            ELSE IF i \in S THEN Append(F[i - 1], BusinessLabels[i]) ELSE F[i - 1]
    IN  F[Len(BusinessLabels)]

\* The label sequences of the business tables: one to MaxRoles columns.
BusinessHeaders ==
    {LabelsAt(S) : S \in {T \in SUBSET (1..Len(BusinessLabels)) :
                              Cardinality(T) \in 1..MaxRoles}}

\* The business tables with the given labels.
BusinessFrames(labels) ==
    {LabelledFrame(labels,
                   [c \in 1..Len(labels) |-> <<NumCell(20), NumCell(second[c])>>])
        : second \in [1..Len(labels) -> SecondRecordValues]}

\* Tables with a column of every business role and a column Qty that is
\* complete or missing; the columns start at 20 and change by -25, +10 or
\* +50 percent: every rule can fire, alone or with the others, and a later
\* rule on a larger change than an earlier one.
RoleLabels == <<Sales, Cost, Users, Orders, Price, Qty>>

RoleFrames ==
    {LabelledFrame(RoleLabels,
                   [c \in 1..Len(RoleLabels) |->
                       IF c = Len(RoleLabels) THEN <<qty, qty>>
                       ELSE <<NumCell(20), NumCell(second[c])>>])
        : second \in [1..(Len(RoleLabels) - 1) -> {15, 22, 30}],
          qty \in {NaNCell, NumCell(20)}}

\* Five records of a text column and a numeric column, with empty strings
\* in the first and missing values in the second.
BlankPrefix(k) == [r \in 1..5 |-> IF r <= k THEN StrCell(<<>>) ELSE StrCell(<<"a">>)]

CompletenessFrames ==
    {LabelledFrame(<<Name, label>>, <<BlankPrefix(k), cells>>)
        : k \in 0..5, label \in {Qty, Sales},
          cells \in [1..5 -> {NaNCell, NumCell(20), NumCell(25)}]}

-----------------------------------------------------------------------------
(* Table reconstruction as a state machine: the engine has returned its
   detections, _parse_spatial_table runs on them. *)

InitTable ==
    /\ pc = "read"
    /\ ocr_results \in OcrInputs
    /\ text_boxes = <<>>
    /\ rows = <<>>
    /\ header_row_idx = 0
    /\ column_positions = <<>>
    /\ df = NoneValue
    /\ raises = {}
    /\ analysis_results = EmptyDict
    /\ result = NoneValue
    /\ TELEGRAM_USER_ID = Unset
    /\ update = NoneValue
    /\ sent = <<>>
    /\ calls = <<>>

\* Lines 68-163; a malformed detection raises inside the loop of lines
\* 74-93, nothing else raises on the detections of the model.
parse_spatial_table ==
    /\ pc = "read"
    /\ IF ocr_results = <<>>
       THEN /\ text_boxes' = <<>>
            /\ rows' = <<>>
            /\ header_row_idx' = 0
            /\ column_positions' = <<>>
            /\ df' = NoneValue
       ELSE IF \E i \in 1..Len(ocr_results) : TextBoxRaises(ocr_results[i])
       THEN /\ text_boxes' = ExtractedBefore(ocr_results)
            /\ rows' = <<>>
            /\ header_row_idx' = 0
            /\ column_positions' = <<>>
            /\ df' = ExceptFallback(text_boxes')
       ELSE /\ text_boxes' = SortedTextBoxes(ocr_results)
            /\ rows' = group_into_rows(text_boxes')
            /\ header_row_idx' = IF Len(rows') < 2 THEN 0 ELSE HeaderRowIdx(rows')
            /\ column_positions' =
                   IF Len(rows') < 2 THEN <<>> ELSE detect_columns(rows'[header_row_idx'])
            /\ df' = BuildFrame(text_boxes', rows', header_row_idx', column_positions')
    /\ pc' = "parsed"
    /\ UNCHANGED <<ocr_results, analyzerVars, botVars>>

NextTable == parse_spatial_table

SpecTable == InitTable /\ [][NextTable]_vars

\* The same stage on pages with malformed boxes.
InitMalformed ==
    /\ pc = "read"
    /\ ocr_results \in MalformedInputs
    /\ text_boxes = <<>>
    /\ rows = <<>>
    /\ header_row_idx = 0
    /\ column_positions = <<>>
    /\ df = NoneValue
    /\ raises = {}
    /\ analysis_results = EmptyDict
    /\ result = NoneValue
    /\ TELEGRAM_USER_ID = Unset
    /\ update = NoneValue
    /\ sent = <<>>
    /\ calls = <<>>

SpecMalformed == InitMalformed /\ [][NextTable]_vars

-----------------------------------------------------------------------------
(* The statistics stage as a state machine: a table is handed to the shared
   analyzer, analyze_data runs on it. *)

InitAnalyze ==
    /\ pc = "table"
    /\ ocr_results = <<>>
    /\ text_boxes = <<>>
    /\ rows = <<>>
    /\ header_row_idx = 0
    /\ column_positions = <<>>
    /\ \/ df \in AnalyzerInputs /\ raises \in RaisingSets
       \/ df \in TrendFrames /\ raises = {}
       \/ df \in OutlierFrames /\ raises = {}
       \/ \E labels \in BusinessHeaders : df \in BusinessFrames(labels) /\ raises = {}
       \/ df \in CompletenessFrames /\ raises = {}
       \/ df \in RoleFrames /\ raises = {}
    /\ analysis_results = EmptyDict
    /\ result = NoneValue
    /\ TELEGRAM_USER_ID = Unset
    /\ update = NoneValue
    /\ sent = <<>>
    /\ calls = <<>>

analyze_data ==
    /\ pc = "table"
    /\ result' = AnalyzeData(df, raises, analysis_results).returned
    \* Lines 33 and 43: what is returned is the attribute just assigned;
    \* the returns of lines 28 and 47 leave the attribute alone.
    /\ analysis_results' = IF "error" \in DOMAIN result' THEN analysis_results
                           ELSE result'
    /\ pc' = "analyzed"
    /\ UNCHANGED <<tableVars, df, raises, botVars>>

NextAnalyze == analyze_data

SpecAnalyze == InitAnalyze /\ [][NextAnalyze]_vars

-----------------------------------------------------------------------------
(* DataAnalystBot.handle_photo (src/src/telegram_bot.py) and the calls it
   makes into the shared ImageProcessor, DataAnalyzer and
   ExcelReportGenerator. The application built by get_application handles
   one update at a time (it does not enable concurrent updates), so a run of
   the handler is one step. The emoji of the messages are left out. *)

\* str() of a non-negative integer: its decimal digits.
RECURSIVE str(_)
str(n) ==
    IF n < 10 THEN <<DigitChars[n + 1]>>
    ELSE Append(str(n \div 10), DigitChars[(n % 10) + 1])

\* Mutant: with no user id configured every sender is turned away.
unauthorized_when_unset(user_id, sender) ==
    ~Truthy(user_id) \/ str(sender) # user_id.text

\* Line 80.
unauthorized(user_id, sender) ==
    Truthy(user_id) /\ str(sender) # user_id.text

\* How a call into a collaborator ends: it returns, or raises an exception
\* of some type with some message.
Returns == [raised |-> "", message |-> <<>>]

Raised(type, m) == [raised |-> type, message |-> m]

\* An uploaded image: whether cv2.imread can read it, how reader.readtext
\* ends on it and what it returns.
Image(readable, engine, results) ==
    [readable |-> readable, engine |-> engine, results |-> results]

\* A page with a single word, a page with a two-column table of numbers, and
\* a page whose only box has no corner points.
WordPage == <<Detection(<<"a">>, 0, 0)>>

TablePage ==
    <<Detection(Sales, 0, 0), Detection(Cost, 20, 0),
      Detection(<<"2", "0">>, 0, 20), Detection(<<"2", "0">>, 20, 20),
      Detection(<<"1", "5">>, 0, 40), Detection(<<"3", "0">>, 20, 40)>>

MalformedPage == <<NoPoints(<<"c">>)>>

BotImages ==
    {Image(FALSE, Returns, <<>>),
     Image(TRUE, Raised("RuntimeError", <<"CUDA out of memory">>), <<>>)}
        \cup {Image(TRUE, Returns, page)
                : page \in {<<>>, MalformedPage, WordPage, TablePage}}

Senders == {7, 8}

UserIdSettings == {Unset, EnvText(<<>>), EnvText(<<"7">>), EnvText(<<"0", "7">>)}

DownloadOutcomes ==
    {Returns, Raised("TelegramError", <<"Timed out">>),
     Raised("OSError", <<"No space left on device">>)}

BotRaising == {{}, {"correlations"}, {"insights"}}

RenderOutcomes == {Returns, Raised("PermissionError", <<"Permission denied">>)}

SendOutcomes == {Returns, Raised("TelegramError", <<"Request Entity Too Large">>)}

\* ImageProcessor._parse_spatial_table, lines 61-163, as a function of the
\* detections. Each local is bound once, as a member of a singleton: lines
\* 112-116 give header_row_idx and column_positions, line 99 the rows,
\* lines 72-96 the sorted text boxes.
HeaderAndColumns(rs) == {<<h, detect_columns(rs[h])>> : h \in {HeaderRowIdx(rs)}}

FramesOfRows(boxes, rs) ==
    IF Len(rs) < 2 THEN {FallbackFrame(boxes)}
    ELSE {BuildFrame(boxes, rs, hc[1], hc[2]) : hc \in HeaderAndColumns(rs)}

FramesOfBoxes(boxes) == UNION {FramesOfRows(boxes, rs) : rs \in {group_into_rows(boxes)}}

ParsedFrame(results) ==
    IF results = <<>> THEN NoneValue
    ELSE IF \E i \in 1..Len(results) : TextBoxRaises(results[i])
    THEN ExceptFallback(ExtractedBefore(results))
    ELSE CHOOSE frame \in UNION {FramesOfBoxes(boxes)
                                    : boxes \in {SortedTextBoxes(results)}} : TRUE

\* ImageProcessor.extract_data_from_image, lines 28-59: the image cannot be
\* read (lines 36-38), the engine raises and line 57 catches it, the engine
\* finds no text (lines 43-45), or the table is parsed (lines 48-55).
extract_data_from_image(image) ==
    IF ~image.readable THEN NoneValue
    ELSE IF image.engine.raised # "" THEN NoneValue
    ELSE IF image.results = <<>> THEN NoneValue
    ELSE CHOOSE returned \in
             {IF frame # NoneValue /\ Len(frame.data) > 0 THEN frame ELSE NoneValue
                 : frame \in {ParsedFrame(image.results)}} : TRUE

\* ExcelReportGenerator.generate_report, lines 28-54: the path of the report,
\* or None when anything raised while the workbook was built or saved.
generate_report(frame, analysis, render) ==
    IF render.raised # "" THEN NoneValue ELSE [path |-> "report.xlsx"]

\* The pieces of a text given as a sequence of strings.
Literal(e) == [j \in 1..Len(e) |-> Lit(e[j])]

\* What the chat shows: text messages and documents.
Text(body) == [kind |-> "text", body |-> body]

Document(caption) == [kind |-> "document", body |-> caption]

\* "\n".join(lines)
RECURSIVE JoinLines(_)
JoinLines(lines) ==
    IF lines = <<>> THEN <<>>
    ELSE IF Len(lines) = 1 THEN lines[1]
    ELSE lines[1] \o <<Lit("\n")>> \o JoinLines(Tail(lines))

unauthorized_message == Text(<<Lit("Unauthorized access")>>)

processing_message == Text(<<Lit("Processing image... This may take a moment.")>>)

sending_message == Text(<<Lit("Sending report...")>>)

no_data_message ==
    Text(<<Lit("Could not extract data from image. Make sure it contains a readable table.")>>)

analysis_failed_message(analysis) ==
    Text(<<Lit("Analysis failed: ")>> \o Literal(analysis.error))

report_failed_message == Text(<<Lit("Failed to generate Excel report")>>)

\* Lines 150-155: the reply of the two exception handlers.
exception_message(outcome) ==
    IF outcome.raised = "TelegramError"
    THEN Text(<<Lit("Telegram error: ")>> \o Literal(outcome.message))
    ELSE Text(<<Lit("Error processing image: ")>> \o Literal(outcome.message))

\* Lines 129-141.
report_document(frame) ==
    Document(<<Lit("Analysis Complete!"), Lit("Data Summary:"), Lit("Rows: ")>>
                 \o Literal(str(Len(frame.data)))
                 \o <<Lit("Columns: ")>> \o Literal(str(Len(frame.columns)))
                 \o <<Lit("Key Findings:")>>)

\* Lines 144-145; the bullet before each insight is written "- ".
insights_message(analysis) ==
    LET insights == analysis["insights"].insights
    IN  Text(<<Lit("Insights:\n")>>
                 \o JoinLines([i \in 1..Len(insights) |-> <<Lit("- ")>> \o insights[i]]))

\* The update handled and how the environment answered the calls made for
\* it; a call that was not made is recorded as returning.
Update(sender, download, image, raising, render, send) ==
    [sender |-> sender, download |-> download, image |-> image,
     raising |-> raising, render |-> render, send |-> send]

NoImage == Image(TRUE, Returns, <<>>)

\* The handler is left: the locals df and analysis as they are then, what
\* the chat shows of this update, the calls that were made; line 43 of
\* analyze_data has stored the analysis in the analyzer unless it failed.
Returned(u, frame, analysis, chat, operations) ==
    /\ update' = u
    /\ raises' = u.raising
    /\ df' = frame
    /\ result' = analysis
    /\ analysis_results' = IF "none" \in DOMAIN analysis \/ "error" \in DOMAIN analysis
                           THEN analysis_results ELSE analysis
    /\ sent' = chat
    /\ calls' = operations

\* Lines 76-155.
handle_photo ==
    /\ pc = "polling"
    /\ \E sender \in Senders :
         IF unauthorized(TELEGRAM_USER_ID, sender)
         THEN Returned(Update(sender, Returns, NoImage, {}, Returns, Returns),
                       NoneValue, NoneValue, <<unauthorized_message>>, <<>>)
         ELSE \E download \in DownloadOutcomes :
         IF download.raised # ""
         THEN Returned(Update(sender, download, NoImage, {}, Returns, Returns),
                       NoneValue, NoneValue,
                       <<processing_message, exception_message(download)>>,
                       <<"download">>)
         ELSE \E image \in BotImages :
         \E frame \in {extract_data_from_image(image)} :
         IF frame = NoneValue \/ Len(frame.data) = 0
         THEN Returned(Update(sender, download, image, {}, Returns, Returns),
                       frame, NoneValue, <<no_data_message>>,
                       <<"download", "extract">>)
         ELSE \E raising \in BotRaising :
         \E analysis \in {AnalyzeData(frame, raising, analysis_results).returned} :
         IF "error" \in DOMAIN analysis
         THEN Returned(Update(sender, download, image, raising, Returns, Returns),
                       frame, analysis, <<analysis_failed_message(analysis)>>,
                       <<"download", "extract", "analyze">>)
         ELSE \E render \in RenderOutcomes :
         IF generate_report(frame, analysis, render) = NoneValue
         THEN Returned(Update(sender, download, image, raising, render, Returns),
                       frame, analysis, <<report_failed_message>>,
                       <<"download", "extract", "analyze", "generate_report">>)
         ELSE \E send \in SendOutcomes :
         IF send.raised # ""
         THEN Returned(Update(sender, download, image, raising, render, send),
                       frame, analysis,
                       <<sending_message, exception_message(send)>>,
                       <<"download", "extract", "analyze", "generate_report",
                         "reply_document">>)
         ELSE Returned(Update(sender, download, image, raising, render, send),
                       frame, analysis,
                       <<report_document(frame), insights_message(analysis)>>,
                       <<"download", "extract", "analyze", "generate_report",
                         "reply_document">>)
    /\ UNCHANGED <<pc, TELEGRAM_USER_ID, tableVars>>

\* DataAnalystBot.__init__ has built the three components; no update yet.
InitBot ==
    /\ pc = "polling"
    /\ TELEGRAM_USER_ID \in UserIdSettings
    /\ update = NoneValue
    /\ sent = <<>>
    /\ calls = <<>>
    /\ ocr_results = <<>>
    /\ text_boxes = <<>>
    /\ rows = <<>>
    /\ header_row_idx = 0
    /\ column_positions = <<>>
    /\ df = NoneValue
    /\ raises = {}
    /\ analysis_results = EmptyDict
    /\ result = NoneValue

NextBot == handle_photo

SpecBot == InitBot /\ [][NextBot]_vars

-----------------------------------------------------------------------------
(* Vocabulary of the properties *)

Parsed == pc = "parsed" /\ ocr_results # <<>>

\* The structured table was built: some row comes after the header row.
Structured == Parsed /\ header_row_idx > 0 /\ header_row_idx < Len(rows)

\* The single-column fallback was taken.
FellBack == Parsed /\ (Len(rows) < 2 \/ header_row_idx = Len(rows))

IsNumericColumn(frame, c) == frame.dtypes[c] \in {"int64", "float64"}

\* The clustered row a record of the structured table was built from.
SourceRow(r) == rows[header_row_idx + r]

Distance(box, c) == abs(box.x_center - column_positions[c])

\* Column c is the nearest anchor of box, the lowest such on a tie.
IsNearestColumn(box, c) ==
    /\ \A d \in 1..Len(column_positions) : Distance(box, c) <= Distance(box, d)
    /\ \A d \in 1..(c - 1) : Distance(box, d) > Distance(box, c)

\* The positions, left to right, of the boxes of a row that fall in column c.
BoxesInColumn(row, c) == {i \in 1..Len(row) : IsNearestColumn(row[i], c)}

-----------------------------------------------------------------------------
(* C1. Original statement: for a non-empty detection list every record of
   the returned table has as many cells as there are headers, and a column
   that received no detection in a row holds the empty string there. *)
C1_PaddedWithEmptyString ==
    Parsed =>
        /\ df # NoneValue
        /\ \A r \in 1..Len(df.data) : Len(df.data[r]) = Len(df.columns)
        /\ Structured =>
             \A r \in 1..Len(df.data) : \A c \in 1..Len(df.columns) :
                 BoxesInColumn(SourceRow(r), c) = {} => df.data[r][c] = StrCell(<<>>)

(* C1. Amended statement: for a non-empty detection list every record of
   the returned table (structured or fallback) has exactly as many cells as
   there are headers; a column that received no detection in a row holds
   the empty string there when the column stayed textual and the missing
   value NaN when the column was converted to numeric. *)
C1_Rectangular ==
    Parsed =>
        /\ df # NoneValue
        /\ Len(df.dtypes) = Len(df.columns)
        /\ \A r \in 1..Len(df.data) : Len(df.data[r]) = Len(df.columns)
        /\ Structured =>
             \A r \in 1..Len(df.data) : \A c \in 1..Len(df.columns) :
                 BoxesInColumn(SourceRow(r), c) = {} =>
                     df.data[r][c] = IF IsNumericColumn(df, c) THEN NaNCell
                                     ELSE StrCell(<<>>)

\* A structured table with a blank cell in a text column and in a numeric one.
C1_Witness ==
    /\ Structured
    /\ \E r \in 1..Len(df.data) : \E c \in 1..Len(df.columns) :
           BoxesInColumn(SourceRow(r), c) = {} /\ df.data[r][c] = NaNCell
    /\ \E r \in 1..Len(df.data) : \E c \in 1..Len(df.columns) :
           BoxesInColumn(SourceRow(r), c) = {} /\ df.data[r][c] = StrCell(<<>>)

(* C2. For a non-empty detection list the returned table has at least one
   record; when clustering yields fewer than two rows, or no row comes
   after the header row, it is a single-column table with exactly one
   record per detection. *)
C2_NeverEmpty ==
    Parsed =>
        /\ df # NoneValue
        /\ Len(df.data) >= 1
        /\ FellBack =>
             /\ Len(df.columns) = 1
             /\ Len(df.data) = Len(ocr_results)
             /\ \A r \in 1..Len(df.data) : Len(df.data[r]) = 1

\* Two or more rows were found but none follows the header row.
C2_Witness ==
    /\ FellBack
    /\ Len(rows) >= 2
    /\ Len(df.columns) = 1
    /\ Len(df.data) = Len(ocr_results)

\* The bag of the elements of a sequence.
BagOf(s) == [e \in Range(s) |-> Cardinality({i \in 1..Len(s) : s[i] = e})]

\* The position in text_boxes (the walk order) of the first member of row k.
RECURSIVE RowStart(_)
RowStart(k) == IF k = 1 THEN 1 ELSE RowStart(k - 1) + Len(rows[k - 1])

\* The stretch of the walk that row k was made of.
Segment(k) == SubSeq(text_boxes, RowStart(k), RowStart(k) + Len(rows[k]) - 1)

Anchor(k) == text_boxes[RowStart(k)].y_center

(* C3. Row clustering walks the detections in ascending y_center order; a
   detection joins the current row iff its y_center is strictly within
   y_threshold of the y_center of the row's first member (the anchor),
   otherwise the row is closed, sorted by x_center, and the detection
   starts a new row and is its anchor; zero detections give zero rows. *)
C3_AnchoredClustering ==
    /\ group_into_rows(<<>>) = <<>>
    /\ Parsed =>
        /\ BagOf(text_boxes) = BagOf(ExtractTextBoxes(ocr_results))
        /\ \A i \in 1..(Len(text_boxes) - 1) :
               text_boxes[i].y_center <= text_boxes[i + 1].y_center
        /\ RowStart(Len(rows) + 1) = Len(text_boxes) + 1
        /\ \A k \in 1..Len(rows) :
            /\ rows[k] # <<>>
            /\ BagOf(rows[k]) = BagOf(Segment(k))
            /\ \A i \in 1..(Len(rows[k]) - 1) :
                   rows[k][i].x_center <= rows[k][i + 1].x_center
            /\ \A i \in 1..Len(rows[k]) : abs(rows[k][i].y_center - Anchor(k)) < y_threshold
            /\ k < Len(rows) => abs(Anchor(k + 1) - Anchor(k)) >= y_threshold

\* A row is closed by a detection that is near its last member but not its anchor.
C3_Witness ==
    /\ Parsed
    /\ \E k \in 1..(Len(rows) - 1) : \E i \in 1..Len(rows[k]) :
           /\ rows[k][i].y_center # Anchor(k)
           /\ abs(Anchor(k + 1) - rows[k][i].y_center) < y_threshold

Swap(s, i) == [s EXCEPT ![i] = s[i + 1], ![i + 1] = s[i]]

\* The rows as unordered groups of detections.
RowGroups(rs) == {BagOf(rs[k]) : k \in 1..Len(rs)}

(* C4. Permuting the detection list leaves the clustered rows, taken as
   unordered groups of detections, unchanged. Every input list of the
   bounded families is reachable, and the adjacent transpositions generate
   all permutations, so the statement is checked for each reachable list
   against each of its adjacent transpositions. *)
C4_PermutationInvariant ==
    Parsed =>
        \A i \in 1..(Len(ocr_results) - 1) :
            RowGroups(Cluster(Swap(ocr_results, i))) = RowGroups(rows)

\* Two detections on the same y_center change places in the walk, in a page of several rows.
C4_Witness ==
    /\ Parsed
    /\ Len(rows) >= 2
    /\ \E i \in 1..(Len(ocr_results) - 1) :
           /\ SortedTextBoxes(Swap(ocr_results, i)) # text_boxes
           /\ RowGroups(Cluster(Swap(ocr_results, i))) = RowGroups(rows)

(* C5. The header row is the clustered row with the most detections, the
   one of smallest index when several share the maximum; the column count
   equals its detection count and the template anchors are its detections'
   x_center values in ascending order. *)
C5_HeaderRow ==
    (Parsed /\ Len(rows) >= 2) =>
        /\ header_row_idx \in 1..Len(rows)
        /\ \A k \in 1..Len(rows) : Len(rows[k]) <= Len(rows[header_row_idx])
        /\ \A k \in 1..(header_row_idx - 1) : Len(rows[k]) < Len(rows[header_row_idx])
        /\ Len(column_positions) = Len(rows[header_row_idx])
        /\ \A c \in 1..(Len(column_positions) - 1) :
               column_positions[c] <= column_positions[c + 1]
        /\ BagOf(column_positions)
             = BagOf([i \in 1..Len(rows[header_row_idx]) |-> rows[header_row_idx][i].x_center])
        /\ Structured => Len(df.columns) = Len(rows[header_row_idx])

\* Two rows share the maximal count and the first of them is the header.
C5_Witness ==
    /\ Structured
    /\ header_row_idx = 1
    /\ Len(rows[1]) = 2
    /\ \E k \in 2..Len(rows) : Len(rows[k]) = 2
    /\ Len(df.columns) = 2

(* C6. For every detection and the (non-empty) column template, column
   assignment returns an index of the template whose anchor is at minimal
   absolute distance from the detection's x_center, the lowest such index
   when several anchors are equally near. *)
C6_NearestColumn ==
    (Parsed /\ column_positions # <<>>) =>
        \A i \in 1..Len(text_boxes) :
            LET c == assign_to_column(text_boxes[i], column_positions)
            IN  /\ c \in 1..Len(column_positions)
                /\ IsNearestColumn(text_boxes[i], c)

\* A detection of a surviving row lies midway between two distinct anchors.
C6_Witness ==
    /\ Structured
    /\ Len(column_positions) >= 2
    /\ \E r \in 1..Len(df.data) : \E i \in 1..Len(SourceRow(r)) :
           /\ column_positions[1] # column_positions[2]
           /\ Distance(SourceRow(r)[i], 1) = Distance(SourceRow(r)[i], 2)
           /\ assign_to_column(SourceRow(r)[i], column_positions) = 1

\* The texts, left to right, of the boxes of a row that fall in column c.
ColumnTexts(row, c) ==
    LET inside == SelectSeq(row, LAMBDA b : IsNearestColumn(b, c))
    IN  [i \in 1..Len(inside) |-> inside[i].text]

IsBlankCell(cell) == cell = NaNCell \/ cell = StrCell(<<>>)

\* The characters other than the separator found in the texts of a row.
RowCharacters(row) == UNION {Range(row[i].text) : i \in 1..Len(row)} \ {" "}

(* C7. The structured table holds exactly one record per clustered row
   whose index is strictly greater than the header-row index, in row
   order; the header row and the rows before it contribute no record, and
   a record holds nothing but what its own row holds. *)
C7_RowsAfterHeader ==
    Structured =>
        /\ Len(df.data) = Len(rows) - header_row_idx
        /\ \A r \in 1..Len(df.data) : \A c \in 1..Len(df.columns) :
            /\ IsBlankCell(df.data[r][c])
                 <=> \A i \in 1..Len(ColumnTexts(SourceRow(r), c)) :
                         ColumnTexts(SourceRow(r), c)[i] = <<>>
            /\ df.data[r][c].kind = "str" =>
                 Range(df.data[r][c].text) \ {" "} \subseteq RowCharacters(SourceRow(r))

\* A row above the header row was dropped and a row below it became a record.
C7_Witness ==
    /\ Structured
    /\ header_row_idx >= 2
    /\ Len(df.data) = Len(rows) - header_row_idx
    /\ RowCharacters(rows[1]) # RowCharacters(SourceRow(1))

\* ' '.join(texts)
RECURSIVE JoinSpace(_)
JoinSpace(texts) ==
    IF texts = <<>> THEN <<>>
    ELSE IF Len(texts) = 1 THEN texts[1]
    ELSE JoinSpace(Front(texts)) \o <<" ">> \o Last(texts)

RECURSIVE DropLeadingEmpty(_)
DropLeadingEmpty(texts) ==
    IF texts # <<>> /\ Head(texts) = <<>> THEN DropLeadingEmpty(Tail(texts)) ELSE texts

\* The cell of column c of the returned table that holds the text s.
CellHolding(c, s) ==
    IF ~IsNumericColumn(df, c) THEN StrCell(s)
    ELSE IF s = <<>> THEN NaNCell
    ELSE IF ParsesAsNumber(s) THEN NumCell(NumberOf(s))
    ELSE StrCell(s)

OneCellPerDetection ==
    \A r \in 1..Len(df.data) : \A i \in 1..Len(SourceRow(r)) :
        Cardinality({c \in 1..Len(df.columns) : IsNearestColumn(SourceRow(r)[i], c)}) = 1

(* C8. Original statement: in every surviving row each cell holds the
   texts of all detections of the row assigned to its column, left to
   right, joined by single spaces (the empty string when there is none),
   and every detection of the row is in exactly one cell. *)
C8_JoinedBySingleSpaces ==
    Structured =>
        /\ OneCellPerDetection
        /\ \A r \in 1..Len(df.data) : \A c \in 1..Len(df.columns) :
               df.data[r][c] = CellHolding(c, JoinSpace(ColumnTexts(SourceRow(r), c)))

(* C8. Amended statement: in every surviving row each cell holds the texts
   of the detections of the row assigned to its column, left to right,
   where each text is appended after a single space to what the cell holds
   unless the cell is still empty: the empty texts that come before the
   first non-empty text of the cell leave no space. Every detection of the
   row is in exactly one cell. *)
C8_AppendedWithSpace ==
    Structured =>
        /\ OneCellPerDetection
        /\ \A r \in 1..Len(df.data) : \A c \in 1..Len(df.columns) :
               df.data[r][c] =
                   CellHolding(c, JoinSpace(DropLeadingEmpty(ColumnTexts(SourceRow(r), c))))

\* A cell received a blank text and then a word; another received two words.
C8_Witness ==
    /\ Structured
    /\ \E r \in 1..Len(df.data) : \E c \in 1..Len(df.columns) :
           /\ ColumnTexts(SourceRow(r), c) = << <<>>, <<"a">> >>
           /\ df.data[r][c] = StrCell(<<"a">>)

(* C9. In every table that assembly returns a column is numeric if and only
   if every non-empty cell of the column parses as a number. *)
C9_NumericIffParses ==
    (Parsed /\ df # NoneValue) =>
        \A c \in 1..Len(df.columns) :
            IsNumericColumn(df, c)
                <=> \A r \in 1..Len(df.data) :
                        df.data[r][c].kind = "str" =>
                            \/ df.data[r][c].text = <<>>
                            \/ ParsesAsNumber(df.data[r][c].text)

\* The sections whose computation raised while analyze_data ran.
FailedSections ==
    {s \in raises : s = "correlations" => Cardinality(NumericColumns(df)) >= 2}

\* The key 'error' of a dictionary keyed by column labels.
error == <<"e", "r", "r", "o", "r">>

\* The sections that are dictionaries keyed by column labels.
LabelKeyed == {"outliers", "trends"}

\* The value of section s in the result has the key 'error'.
ReportsError(s) ==
    IF s \in LabelKeyed THEN error \in DOMAIN result[s]
    ELSE "error" \in DOMAIN result[s]

(* C10. A failure raised inside any one statistics section is reported as
   {error: message} inside that section only, and all sibling sections are
   present and computed in the result of analyze_data. *)
C10_SectionFailureIsLocal ==
    (pc = "analyzed" /\ df # NoneValue /\ Len(df.data) > 0) =>
        /\ DOMAIN result = Range(SectionNames)
        /\ \A s \in Range(SectionNames) :
               IF s \in FailedSections
               THEN result[s] = [error |-> ExceptionMessage(s)]
               ELSE ~ReportsError(s)

(* C11. Given an absent or zero-record table analyze_data returns only the
   key 'error' and none of the seven sections; for every non-empty table the
   result has exactly the sections overview, descriptive_stats, data_quality,
   correlations, outliers, trends and insights. *)
C11_ErrorOrSevenSections ==
    pc = "analyzed" =>
        IF df = NoneValue \/ Len(df.data) = 0
        THEN DOMAIN result = {"error"}
        ELSE DOMAIN result = Range(SectionNames)

\* analyze_data returned the seven sections.
Analyzed == pc = "analyzed" /\ DOMAIN result = Range(SectionNames)

(* C12. Original statement: for every table handed to the statistics stage
   the number of entries of the trends section equals the number of numeric
   columns of the table, whatever that number is. *)
C12_OneEntryPerNumericColumn ==
    Analyzed => Cardinality(DOMAIN result["trends"]) = Cardinality(NumericColumns(df))

(* C12. Amended statement: for a table with at least one numeric column the
   trends section has one entry per numeric column, keyed by its label, so
   as many entries as numeric columns; for a table without numeric columns
   it is the single note 'No trends detected', one entry and not zero. *)
C12_EntryPerNumericColumnOrNote ==
    Analyzed =>
        IF NumericColumns(df) # {}
        THEN /\ DOMAIN result["trends"] = {df.columns[c] : c \in NumericColumns(df)}
             /\ Cardinality(DOMAIN result["trends"]) = Cardinality(NumericColumns(df))
        ELSE /\ DOMAIN result["trends"] = {note}
             /\ result["trends"][note] = <<"No trends detected">>

C12_Witness ==
    /\ Analyzed
    /\ Cardinality(NumericColumns(df)) = 2
    /\ Cardinality(DOMAIN result["trends"]) = 2

\* The records lo..hi (1-based) of column c that hold a number.
PresentRecords(c, lo, hi) == {r \in lo..hi : df.data[r][c].kind = "num"}

RECURSIVE Total(_, _)
Total(c, R) ==
    IF R = {} THEN 0
    ELSE LET r == CHOOSE x \in R : TRUE
         IN  df.data[r][c].num + Total(c, R \ {r})

\* The float x is the mean of the records lo..hi of column c: their total
\* over their number, and NaN (undefined) when there is none.
IsMeanOf(x, c, lo, hi) ==
    IF PresentRecords(c, lo, hi) = {} THEN x.nan
    ELSE /\ ~x.nan
         /\ x.num * Cardinality(PresentRecords(c, lo, hi))
                = Total(c, PresentRecords(c, lo, hi)) * x.den

\* The float x is (second - first) / first * 100 for the means first = s1 / k1
\* and second = s2 / k2, that is 100 * (s2 * k1 - s1 * k2) / (k2 * s1).
IsChangePercent(x, s1, k1, s2, k2) ==
    /\ ~x.nan
    /\ x.num * (k2 * s1) = 100 * (s2 * k1 - s1 * k2) * x.den

(* C13. For every numeric column of length n the trend entry reports
   first_half_avg as the mean of records [0, n//2), second_half_avg as the
   mean of records [n//2, n) and change_percentage as
   (second - first) / first * 100, except that change_percentage is exactly
   0 whenever the first-half mean is exactly 0. The mean of no record is
   undefined (NaN), and so is a percentage taken from it. *)
C13_HalfMeansAndChange ==
    Analyzed =>
        \A c \in NumericColumns(df) :
            LET n  == Len(df.data)
                e  == result["trends"][df.columns[c]]
                R1 == PresentRecords(c, 1, n \div 2)
                R2 == PresentRecords(c, (n \div 2) + 1, n)
            IN  /\ IsMeanOf(e.first_half_avg, c, 1, n \div 2)
                /\ IsMeanOf(e.second_half_avg, c, (n \div 2) + 1, n)
                /\ IF R1 # {} /\ Total(c, R1) = 0
                   THEN e.change_percentage = Float(0)
                   ELSE IF R1 = {} \/ R2 = {} THEN e.change_percentage.nan
                   ELSE IsChangePercent(e.change_percentage,
                                        Total(c, R1), Cardinality(R1),
                                        Total(c, R2), Cardinality(R2))

\* Three records 0, 1, 3: the first half is the first record alone, its
\* mean is 0, and the change is reported as 0 percent.
C13_Witness ==
    /\ Analyzed
    /\ df.columns = <<Qty>>
    /\ Column(df, 1) = <<NumCell(0), NumCell(1), NumCell(3)>>
    /\ result["trends"][Qty].first_half_avg = Float(0)
    /\ result["trends"][Qty].second_half_avg = Float(2)
    /\ result["trends"][Qty].change_percentage = Float(0)

(* C14. For every numeric column the trend label is 'increasing' if and only
   if the raw change, second-half mean minus first-half mean, is strictly
   positive, and 'decreasing' otherwise; a change of exactly zero is
   labelled 'decreasing'. *)
C14_IncreasingIffPositiveChange ==
    Analyzed =>
        \A c \in NumericColumns(df) :
            LET n  == Len(df.data)
                e  == result["trends"][df.columns[c]]
                R1 == PresentRecords(c, 1, n \div 2)
                R2 == PresentRecords(c, (n \div 2) + 1, n)
            IN  /\ e.trend \in {"increasing", "decreasing"}
                /\ e.trend = "increasing"
                       <=> /\ R1 # {} /\ R2 # {}
                           /\ Total(c, R2) * Cardinality(R1)
                                  > Total(c, R1) * Cardinality(R2)

\* Two equal records: the change is exactly zero and the label 'decreasing'.
C14_Witness ==
    /\ Analyzed
    /\ df.columns = <<Qty>>
    /\ Column(df, 1) = <<NumCell(3), NumCell(3)>>
    /\ result["trends"][Qty].first_half_avg = result["trends"][Qty].second_half_avg
    /\ result["trends"][Qty].trend = "decreasing"

\* The order statistics of the numbers present in column c: the i-th smallest.
PresentValues(c) == {r \in 1..Len(df.data) : df.data[r][c].kind = "num"}

OrderStatistic(c, i) ==
    CHOOSE v \in {df.data[r][c].num : r \in PresentValues(c)} :
        /\ Cardinality({r \in PresentValues(c) : df.data[r][c].num < v}) < i
        /\ Cardinality({r \in PresentValues(c) : df.data[r][c].num <= v}) >= i

\* Four times the quartile qn / 4 of column c (linear interpolation between
\* the order statistics around position (qn / 4) * (n - 1)), an integer.
FourTimesQuartile(c, qn) ==
    LET pos == qn * (Cardinality(PresentValues(c)) - 1)
    IN  IF pos % 4 = 0 THEN 4 * OrderStatistic(c, (pos \div 4) + 1)
        ELSE (4 - (pos % 4)) * OrderStatistic(c, (pos \div 4) + 1)
                 + (pos % 4) * OrderStatistic(c, (pos \div 4) + 2)

\* v < Q1 - 1.5 * IQR or v > Q3 + 1.5 * IQR, all sides multiplied by 8.
IsOutside(c, v) ==
    LET q1 == FourTimesQuartile(c, 1)
        q3 == FourTimesQuartile(c, 3)
    IN  \/ 8 * v < 2 * q1 - 3 * (q3 - q1)
        \/ 8 * v > 2 * q3 + 3 * (q3 - q1)

\* The values of column c outside the bounds, in record order.
OutsideValues(c) ==
    LET outside == SelectSeq(Column(df, c),
                             LAMBDA x : x.kind = "num" /\ IsOutside(c, x.num))
    IN  [i \in 1..Len(outside) |-> outside[i].num]

(* C15. For every numeric column, with lower = Q1 - 1.5 * IQR and
   upper = Q3 + 1.5 * IQR, the values reported as outliers are exactly the
   column values strictly below lower or strictly above upper, count is their
   number and percentage is count / row count * 100; a column without such a
   value is omitted, and when no column has any the section is the note
   'No outliers detected'. For the column 1, 2, 3, 4, 100 only 100 is
   reported. *)
C15_OutliersOutsideIqrBounds ==
    Analyzed =>
        LET flagged == {c \in NumericColumns(df) : OutsideValues(c) # <<>>}
        IN  /\ IF flagged = {}
               THEN /\ DOMAIN result["outliers"] = {note}
                    /\ result["outliers"][note] = <<"No outliers detected">>
               ELSE DOMAIN result["outliers"] = {df.columns[c] : c \in flagged}
            /\ \A c \in flagged :
                   LET e == result["outliers"][df.columns[c]]
                   IN  /\ e.values = OutsideValues(c)
                       /\ e.count = Len(OutsideValues(c))
                       /\ ~e.percentage.nan
                       /\ e.percentage.num * Len(df.data)
                              = 100 * e.count * e.percentage.den
            /\ \A c \in NumericColumns(df) :
                   Column(df, c) = <<NumCell(1), NumCell(2), NumCell(3), NumCell(4),
                                     NumCell(100)>>
                       => /\ c \in flagged
                          /\ result["outliers"][df.columns[c]].values = <<100>>

\* The column 1, 2, 3, 4, 100: one outlier, 100, a fifth of the records.
C15_Witness ==
    /\ Analyzed
    /\ df.columns = <<Qty>>
    /\ Column(df, 1) = <<NumCell(1), NumCell(2), NumCell(3), NumCell(4), NumCell(100)>>
    /\ DOMAIN result["outliers"] = {Qty}
    /\ result["outliers"][Qty] =
           [count |-> 1, percentage |-> Float(20), values |-> <<100>>]

\* The list of insights returned.
Insights == result["insights"].insights

\* The positions of the insights that open with the literal text s.
InsightsOpening(s) == {i \in 1..Len(Insights) : Insights[i][1] = Lit(s)}

\* The change percentage reported by the trends section for the column labelled k.
TrendChange(k) == result["trends"][k].change_percentage

\* x > t, x < t and |x| > t for a float x and an integer t; false for NaN.
Exceeds(x, t) == ~x.nan /\ x.num > t * x.den

MagnitudeExceeds(x, t) == ~x.nan /\ abs(x.num) > t * x.den

\* x - y > t for floats x and y and an integer t.
ExceedsBy(x, y, t) ==
    ~x.nan /\ ~y.nan /\ x.num * y.den - y.num * x.den > t * x.den * y.den

\* The revenue-like, cost-like and customer-like columns: the numeric columns
\* whose lower-cased label contains one of the patterns of the role, in
\* column order; the first one stands for the role.
RevenueLike == role_cols(df, revenue_patterns)

CostLike == role_cols(df, cost_patterns)

CustomerLike == role_cols(df, customer_patterns)

MentionsDriver(message) ==
    \E j \in 1..Len(message) : message[j] = Lit(" driven by ")

Escalated(message) ==
    Last(message) = Lit("Strong performance - investigate what strategies are working to replicate success.")

NotEscalated(message) ==
    Last(message) = Lit("Monitor closely and identify growth drivers.")

(* C16. The revenue insight is emitted if and only if a revenue-like column
   exists and the magnitude of its trend change exceeds 10 percent, strictly,
   for growth and decline alike; it mentions the customer-growth driver
   exactly when a customer-like column's trend change also exceeds 10
   percent; with revenue +25% and customers +15% the insight mentions the
   driver and uses the escalated wording. *)
C16_RevenueInsight ==
    Analyzed =>
        /\ Cardinality(InsightsOpening("Revenue ")) <= 1
        /\ InsightsOpening("Revenue ") # {}
               <=> /\ RevenueLike # <<>>
                   /\ MagnitudeExceeds(TrendChange(RevenueLike[1]), 10)
        /\ \A i \in InsightsOpening("Revenue ") :
               /\ MentionsDriver(Insights[i])
                      <=> /\ CustomerLike # <<>>
                          /\ Exceeds(TrendChange(CustomerLike[1]), 10)
               /\ (/\ CustomerLike # <<>>
                   /\ TrendChange(RevenueLike[1]) = Float(25)
                   /\ TrendChange(CustomerLike[1]) = Float(15))
                      => MentionsDriver(Insights[i]) /\ Escalated(Insights[i])

\* Sales 20 -> 25 (+25%) and Users 20 -> 23 (+15%).
C16_Witness ==
    /\ Analyzed
    /\ df.columns = <<Sales, Users>>
    /\ TrendChange(Sales) = Float(25)
    /\ TrendChange(Users) = Float(15)
    /\ Insights =
           << <<Lit("Revenue "), Lit("increasing"), Lit(" "),
                [kind |-> "fig", text |-> "", tenths |-> 250], Lit("%"),
                Lit(" driven by "), [kind |-> "fig", text |-> "", tenths |-> 150],
                Lit("% customer growth"), Lit(". "),
                Lit("Strong performance - investigate what strategies are working to replicate success.")>> >>

(* C17. Original statement: whenever the revenue insight fires it uses the
   escalated wording if and only if the magnitude of the revenue trend
   change is above 20 percent, for -25% as well as +25%, and the
   non-escalated wording for magnitudes in (10%, 20%]. *)
C17_EscalatedOnMagnitude ==
    Analyzed =>
        \A i \in InsightsOpening("Revenue ") :
            IF MagnitudeExceeds(TrendChange(RevenueLike[1]), 20)
            THEN Escalated(Insights[i])
            ELSE NotEscalated(Insights[i])

(* C17. Amended statement: whenever the revenue insight fires it uses the
   escalated wording if and only if the revenue trend change itself, with
   its sign, is above 20 percent; growth in (10%, 20%] and every decline
   beyond 10%, a change of -25% included, get the non-escalated wording. *)
C17_EscalatedOnSignedChange ==
    Analyzed =>
        \A i \in InsightsOpening("Revenue ") :
            IF Exceeds(TrendChange(RevenueLike[1]), 20)
            THEN Escalated(Insights[i])
            ELSE NotEscalated(Insights[i])

\* Sales 20 -> 15 (-25%): the insight fires with the non-escalated wording.
C17_Witness ==
    /\ Analyzed
    /\ df.columns = <<Sales>>
    /\ TrendChange(Sales) = Float(-25)
    /\ InsightsOpening("Revenue ") = {1}
    /\ NotEscalated(Insights[1])

(* C18. When both a revenue-like and a cost-like column exist, the
   margin-pressure warning is emitted if and only if cost growth exceeds
   revenue growth by more than 5 percentage points
   (cost_change - rev_change > 5); the improving-profitability note is
   emitted if and only if revenue growth exceeds cost growth and exceeds 10
   percent; neither is emitted when either role is absent. *)
C18_MarginPressureOnGap ==
    Analyzed =>
        /\ InsightsOpening("Profit margin pressure: Costs growing ") # {}
               <=> /\ RevenueLike # <<>> /\ CostLike # <<>>
                   /\ ExceedsBy(TrendChange(CostLike[1]), TrendChange(RevenueLike[1]), 5)
        /\ InsightsOpening("Improving profitability: Revenue outpacing costs (") # {}
               <=> /\ RevenueLike # <<>> /\ CostLike # <<>>
                   /\ ExceedsBy(TrendChange(RevenueLike[1]), TrendChange(CostLike[1]), 0)
                   /\ Exceeds(TrendChange(RevenueLike[1]), 10)

\* The cells of the table that are empty: a missing value or an empty string.
EmptyCells ==
    {rc \in (1..Len(df.data)) \X (1..Len(df.columns)) :
        \/ df.data[rc[1]][rc[2]].kind = "nan"
        \/ df.data[rc[1]][rc[2]] = StrCell(<<>>)}

(* C19. For every table, whenever the fraction of empty (missing) cells over
   all cells of the table exceeds 10 percent the insights contain the
   data-completeness warning, whatever other rules fired; when the fraction
   is at most 10 percent the warning is absent. *)
C19_CompletenessWarning ==
    Analyzed =>
        (InsightsOpening("Data completeness issue: ") # {}
            <=> 100 * Cardinality(EmptyCells) > 10 * Len(df.data) * Len(df.columns))

\* What the five rules append for the table, each from the reported trends.
RuleOutput ==
    <<revenue_insight(df, result["trends"], RevenueLike, CustomerLike),
      profitability_insight(df, result["trends"], RevenueLike, CostLike),
      customer_value_insight(df, result["trends"], role_cols(df, value_patterns),
                             CustomerLike),
      engagement_insight(df, result["trends"], role_cols(df, order_patterns),
                         CustomerLike),
      completeness_insight(df)>>

(* C20. The insight sequence returned for any non-empty table is never empty:
   it is exactly the single default 'clean dataset' insight if and only if
   none of the five rules fired (appended an insight), and the default
   insight never appears together with a rule-produced insight. *)
C20_DefaultIffNoRuleFired ==
    Analyzed =>
        LET output == RuleOutput
            fired  == {k \in 1..Len(output) : output[k] # <<>>}
        IN  /\ Insights # <<>>
            /\ Insights = <<default_insight>> <=> fired = {}
            /\ (\E i \in 1..Len(Insights) : Insights[i] = default_insight)
                   => Len(Insights) = 1
            /\ fired # {}
                   => /\ Len(Insights) = Cardinality(fired)
                      /\ \A i \in 1..Len(Insights) :
                             \E k \in fired : output[k] = <<Insights[i]>>

\* Sales unchanged and Cost +5%: no rule fires and the default is returned.
C20_Witness ==
    /\ Analyzed
    /\ df.columns = <<Sales, Cost>>
    /\ TrendChange(Sales) = Float(0)
    /\ TrendChange(Cost) = Float(5)
    /\ Insights = <<default_insight>>

\* The boxes of the rows, one row after the other.
RECURSIVE Flatten(_)
Flatten(rs) == IF rs = <<>> THEN <<>> ELSE Head(rs) \o Flatten(Tail(rs))

\* How many times box b occurs in a sequence of boxes.
Occurrences(b, s) == Cardinality({i \in 1..Len(s) : s[i] = b})

(* C26. In the rows clustered from the detections sorted by y_center, any
   two members of a row have y_centers less than y_threshold apart, the
   anchors of consecutive rows are at least y_threshold apart and ascend,
   and every detection is in exactly one row. *)
C26_RowsPartitionByThreshold ==
    Parsed =>
        /\ \A k \in 1..Len(rows) : \A i, j \in 1..Len(rows[k]) :
               abs(rows[k][i].y_center - rows[k][j].y_center) < y_threshold
        /\ \A k \in 1..(Len(rows) - 1) : Anchor(k + 1) - Anchor(k) >= y_threshold
        /\ LET flat == Flatten(rows)
               extracted == ExtractTextBoxes(ocr_results)
           IN  /\ Len(flat) = Len(extracted)
               /\ \A i \in 1..Len(extracted) :
                      /\ Occurrences(extracted[i], flat)
                             = Occurrences(extracted[i], extracted)
                      /\ Cardinality({k \in 1..Len(rows) :
                                         extracted[i] \in Range(rows[k])}) = 1

\* A row holds two detections on different lines of sight, and the next row
\* starts exactly y_threshold below its anchor.
C26_Witness ==
    /\ Parsed
    /\ \E k \in 1..(Len(rows) - 1) :
           /\ \E i, j \in 1..Len(rows[k]) : rows[k][i].y_center # rows[k][j].y_center
           /\ Anchor(k + 1) - Anchor(k) = y_threshold

\* The orders in which n detections can be listed.
Orderings(n) == {p \in [1..n -> 1..n] : \A i, j \in 1..n : i # j => p[i] # p[j]}

\* The clustered row that holds box b.
RowIndex(b) == CHOOSE k \in 1..Len(rows) : b \in Range(rows[k])

\* Detection q does not come before detection p in row-cluster order: a later
\* row, or the same row and not further left.
RowClusterOrdered(p, q) ==
    LET a == TextBox(p)
        b == TextBox(q)
    IN  \/ RowIndex(a) < RowIndex(b)
        \/ RowIndex(a) = RowIndex(b) /\ a.x_center <= b.x_center

(* C22. Original statement: the records of the single-column fallback table
   list the texts of the detections in row-cluster order, the clustered
   rows from top to bottom and each row left to right by x_center, every
   text as the detection carries it. *)
C22_FallbackInRowClusterOrder ==
    FellBack =>
        \E p \in Orderings(Len(ocr_results)) :
            /\ \A i, j \in 1..Len(p) :
                   i < j => RowClusterOrdered(ocr_results[p[i]], ocr_results[p[j]])
            /\ df.data = [i \in 1..Len(p) |-> <<StrCell(ocr_results[p[i]].text)>>]

(* C23. Original statement: the reconstruction never raises on malformed
   geometry; every non-empty detection list gives the single-column
   fallback table holding the texts of the detections, and no table is
   returned only for the empty list. *)
C23_DegradesToFallback ==
    pc = "parsed" =>
        /\ df = NoneValue <=> ocr_results = <<>>
        /\ (\E i \in 1..Len(ocr_results) : TextBoxRaises(ocr_results[i])) =>
               /\ df # NoneValue
               /\ df.columns = << <<"Data">> >>
               /\ BagOf([r \in 1..Len(df.data) |-> df.data[r][1].text])
                      = BagOf([i \in 1..Len(ocr_results) |-> strip(ocr_results[i].text)])

\* The first-half mean of column c is defined and strictly positive.
FirstHalfPositive(c) ==
    LET R1 == PresentRecords(c, 1, Len(df.data) \div 2)
    IN  R1 # {} /\ Total(c, R1) > 0

(* C27. For every numeric column whose first-half mean is strictly positive
   the trend label is 'increasing' if and only if change_percentage is
   strictly positive; so the direction word of the revenue insight and the
   percentage it prints, the magnitude of that change, describe the same
   movement. *)
C27_LabelAgreesWithSign ==
    Analyzed =>
        /\ \A c \in NumericColumns(df) :
               FirstHalfPositive(c) =>
                   (result["trends"][df.columns[c]].trend = "increasing"
                        <=> Exceeds(TrendChange(df.columns[c]), 0))
        /\ \A i \in InsightsOpening("Revenue ") :
               FirstHalfPositive(ColumnOf(df, RevenueLike[1])) =>
                   /\ Insights[i][2] = Lit("increasing")
                          <=> Exceeds(TrendChange(RevenueLike[1]), 0)
                   /\ Insights[i][2] = Lit("decreasing")
                          <=> ~Exceeds(TrendChange(RevenueLike[1]), 0)
                   /\ Insights[i][4] = Format1f(FAbs(TrendChange(RevenueLike[1])))

\* Sales 20 -> 15: the label is 'decreasing', the change is -25 percent and
\* the insight reads "Revenue decreasing 25.0%".
C27_Witness ==
    /\ Analyzed
    /\ RevenueLike # <<>>
    /\ FirstHalfPositive(ColumnOf(df, RevenueLike[1]))
    /\ TrendChange(RevenueLike[1]) = Float(-25)
    /\ \E i \in InsightsOpening("Revenue ") :
           /\ Insights[i][2] = Lit("decreasing")
           /\ Insights[i][4] = [kind |-> "fig", text |-> "", tenths |-> 250]

\* The rule an insight comes from, told by the text it opens with: 1 revenue
\* trend, 2 margin pressure or improving profitability, 3 customer value,
\* 4 engagement, 5 data completeness; 0 for any other message.
RuleOf(message) ==
    IF message[1] = Lit("Revenue ") THEN 1
    ELSE IF message[1] \in {Lit("Profit margin pressure: Costs growing "),
                            Lit("Improving profitability: Revenue outpacing costs (")}
    THEN 2
    ELSE IF message[1] \in
                {Lit("Declining customer value: Average value per customer down "),
                 Lit("Increasing customer value: Up ")}
    THEN 3
    ELSE IF message[1] =
                Lit("Strong customer engagement: Orders growing faster than customer base (")
    THEN 4
    ELSE IF message[1] = Lit("Data completeness issue: ") THEN 5
    ELSE 0

\* The figure a message prints first, in tenths of a percent.
FirstFigure(message) ==
    message[min({j \in 1..Len(message) : message[j].kind = "fig"})].tenths

(* C24. The insights appear in the order of the rules, whatever the
   magnitudes: revenue trend, then margin pressure or improving
   profitability, then customer value, then engagement, then data
   completeness; every rule contributes at most one insight, and every
   insight other than the lone default comes from one of these rules. *)
C24_InsightsInRuleOrder ==
    Analyzed =>
        /\ \A i, j \in 1..Len(Insights) :
               i < j => RuleOf(Insights[i]) < RuleOf(Insights[j])
        /\ Insights # <<default_insight>>
               => \A i \in 1..Len(Insights) : RuleOf(Insights[i]) \in 1..5

\* All five rules fire; the revenue insight, which comes first, prints a
\* smaller figure than the margin pressure insight after it, and that one a
\* larger figure than the data completeness insight, which comes last.
C24_Witness ==
    /\ Analyzed
    /\ Len(Insights) = 5
    /\ \A i \in 1..5 : RuleOf(Insights[i]) = i
    /\ FirstFigure(Insights[1]) < FirstFigure(Insights[2])
    /\ FirstFigure(Insights[2]) > FirstFigure(Insights[5])

\* A photo update has been handled.
Handled == update # NoneValue

Called(operation) == \E i \in 1..Len(calls) : calls[i] = operation

(* C21. Original statement: across the requests served by one bot nothing
   that a completed request produced remains stored in the state of the
   shared components; the only attribute of a shared component that holds
   request data, DataAnalyzer.analysis_results, holds no analysis once a
   request is over, whatever the outcome of that request. *)
C21_NothingStoredAfterRequest ==
    Handled => DOMAIN analysis_results = {}

\* The messages that report a failure to the user, told by their opening text.
IsFailure(message) ==
    /\ message.kind = "text"
    /\ message.body[1] \in
           {Lit("Unauthorized access"),
            Lit("Could not extract data from image. Make sure it contains a readable table."),
            Lit("Analysis failed: "),
            Lit("Failed to generate Excel report"),
            Lit("Telegram error: "),
            Lit("Error processing image: ")}

\* The message carries the text e, piece for piece.
Carries(message, e) ==
    \E j \in 1..Len(message.body) :
        /\ j + Len(e) - 1 <= Len(message.body)
        /\ SubSeq(message.body, j, j + Len(e) - 1) = Literal(e)

\* The engine was run on the image and raised; the renderer was run and raised.
EngineFailed ==
    Called("extract") /\ update.image.readable /\ update.image.engine.raised # ""

RendererFailed == Called("generate_report") /\ update.render.raised # ""

\* Extraction gave a table, the analysis gave its sections, the report was written.
AllSucceeded ==
    /\ Called("generate_report")
    /\ df # NoneValue
    /\ DOMAIN result = Range(SectionNames)
    /\ update.render.raised = ""

IsInsightsMessage(message) ==
    message.kind = "text" /\ message.body[1] = Lit("Insights:\n")

(* C25. Original statement: when the text-detection engine or the report
   renderer raises during a photo request, the failure message the user
   gets carries the error message of that collaborator verbatim; the report
   document and the insights message are sent only when extraction,
   analysis and rendering all succeeded, and otherwise exactly one failure
   message ends the request. *)
C25_CollaboratorErrorVerbatim ==
    (Handled /\ Called("download")) =>
        /\ EngineFailed =>
               \E i \in 1..Len(sent) :
                   IsFailure(sent[i]) /\ Carries(sent[i], update.image.engine.message)
        /\ RendererFailed =>
               \E i \in 1..Len(sent) :
                   IsFailure(sent[i]) /\ Carries(sent[i], update.render.message)
        /\ (\E i \in 1..Len(sent) :
                sent[i].kind = "document" \/ IsInsightsMessage(sent[i]))
               => AllSucceeded
        /\ ~AllSucceeded =>
               /\ Cardinality({i \in 1..Len(sent) : IsFailure(sent[i])}) = 1
               /\ IsFailure(sent[Len(sent)])

\* TELEGRAM_USER_ID is configured: the environment gives it a value.
Configured == ~TELEGRAM_USER_ID.none /\ Len(TELEGRAM_USER_ID.text) > 0

(* C28. When TELEGRAM_USER_ID is configured and the id of the sender differs
   from it, handle_photo answers with the unauthorized message and nothing
   else, and makes no call to download, extract, analyze, render or send
   for that update; when it is not configured, the update of every sender
   is processed: the processing message is sent and the download started. *)
C28_OnlyConfiguredUserIsServed ==
    Handled =>
        /\ (Configured /\ str(update.sender) # TELEGRAM_USER_ID.text) =>
               /\ sent = <<unauthorized_message>>
               /\ calls = <<>>
               /\ df = NoneValue
               /\ result = NoneValue
        /\ ~Configured =>
               /\ Called("download")
               /\ \A i \in 1..Len(sent) : sent[i] # unauthorized_message

\* The bot is restricted to user 7; it has served a photo of that user, and
\* then turns away a photo sent by user 8.
C28_Witness ==
    /\ Handled
    /\ TELEGRAM_USER_ID = EnvText(<<"7">>)
    /\ update.sender = 8
    /\ sent = <<unauthorized_message>>
    /\ calls = <<>>
    /\ DOMAIN analysis_results = Range(SectionNames)

====
